---- MODULE Spec2Model ----
(***************************************************************************)
(* BubblePrinter: the slicing and packing kernel.                          *)
(*   src/src/geometry_utils.js    getSliceContours,                        *)
(*                                getTriangleIntersectionSegments,         *)
(*                                stitchSegments                           *)
(*   src/src/bubble_generator.js  generateGeometry,                        *)
(*                                getGridPointsInContours,                 *)
(*                                isPointInContours                        *)
(* JavaScript numbers are modelled as exact rationals <<n, d>> in lowest   *)
(* terms with d > 0; every input used here is a number on which the        *)
(* program's arithmetic is exact or is rounded the same way by toFixed.    *)
(* Array indices are 1-based here and 0-based in the source.               *)
(***************************************************************************)
EXTENDS Integers, Sequences, FiniteSets, TLC

(***************************************************************************)
(* Numbers                                                                 *)
(***************************************************************************)
RECURSIVE GCD(_, _)
GCD(a, b) == IF b = 0 THEN a ELSE GCD(b, a % b)

Abs(a) == IF a < 0 THEN -a ELSE a

\* the number n/d in lowest terms, d # 0
Norm(n, d) ==
    LET g == GCD(Abs(n), Abs(d))
        s == IF d < 0 THEN -1 ELSE 1
    IN  << (s * n) \div g, (s * d) \div g >>

R(n) == << n, 1 >>

Add(a, b) == Norm(a[1] * b[2] + b[1] * a[2], a[2] * b[2])
Sub(a, b) == Norm(a[1] * b[2] - b[1] * a[2], a[2] * b[2])
Mul(a, b) == Norm(a[1] * b[1], a[2] * b[2])
\* a / b for b # 0
Div(a, b) == Norm(a[1] * b[2], a[2] * b[1])
\* NaN is written << 0, 0 >>
NaN == << 0, 0 >>
isNaN(a) == a = NaN

\* the value of an expression, computed once
Only(S) == CHOOSE v \in S : TRUE

\* every comparison with NaN is false
Lt(a, b) ==
    /\ ~isNaN(a) /\ ~isNaN(b)
    /\ IF a[2] = 0 /\ b[2] = 0 THEN a[1] < b[1] ELSE a[1] * b[2] < b[1] * a[2]
Gt(a, b) == Lt(b, a)
Ge(a, b) == ~isNaN(a) /\ ~isNaN(b) /\ ~Lt(a, b)
Le(a, b) == ~isNaN(a) /\ ~isNaN(b) /\ ~Lt(b, a)
\* Math.min, Math.max: NaN if an argument is
Min2(a, b) == IF isNaN(a) \/ isNaN(b) THEN NaN ELSE IF Lt(b, a) THEN b ELSE a
Max2(a, b) == IF isNaN(a) \/ isNaN(b) THEN NaN ELSE IF Lt(a, b) THEN b ELSE a

RECURSIVE Pow10(_)
Pow10(k) == IF k = 0 THEN 1 ELSE 10 * Pow10(k - 1)

Floor(a) == a[1] \div a[2]
Ceil(a) == 0 - ((0 - a[1]) \div a[2])

\* Number.prototype.toFixed(digits): the sign and the digits of the nearest
\* multiple of 10^-digits, ties away from zero ("-0.000000" and "0.000000"
\* are different strings); << FALSE, -1 >> stands for the string "NaN",
\* << FALSE, -2 >> for "Infinity" and << TRUE, -2 >> for "-Infinity"
toFixed(a, digits) ==
    IF isNaN(a) THEN << FALSE, -1 >>
    ELSE IF a[2] = 0 THEN << a[1] < 0, -2 >>
    ELSE LET m == Abs(a[1]) * Pow10(digits)
         IN  << a[1] < 0, (2 * m + a[2]) \div (2 * a[2]) >>

(***************************************************************************)
(* Points: THREE.Vector3                                                   *)
(***************************************************************************)
Vec(x, y, c3) == [x |-> x, y |-> y, z |-> c3]
\* a vertex with integer coordinates
V(x, y, c3) == Vec(R(x), R(y), R(c3))

(***************************************************************************)
(* getTriangleIntersectionSegments                                         *)
(***************************************************************************)
\* EdgeCrosses with both comparisons strict
EdgeCrosses_Strict(pa, pb, planeZ) ==
    \/ Gt(pa.z, planeZ) /\ Lt(pb.z, planeZ)
    \/ Lt(pa.z, planeZ) /\ Gt(pb.z, planeZ)

\* EdgeCrosses comparing pb.z with pa.z where it should compare it with z
EdgeCrosses_WrongOperand(pa, pb, planeZ) ==
    \/ Ge(pa.z, planeZ) /\ Lt(pb.z, pa.z)
    \/ Lt(pa.z, planeZ) /\ Ge(pb.z, planeZ)

\* geometry_utils.js:67 the edge (pa, pb) crosses the plane
EdgeCrosses(pa, pb, planeZ) ==
    \/ Ge(pa.z, planeZ) /\ Lt(pb.z, planeZ)
    \/ Lt(pa.z, planeZ) /\ Ge(pb.z, planeZ)

\* Interpolate measuring t from the wrong endpoint
Interpolate_FromEnd(pa, pb, planeZ) ==
    LET t == Div(Sub(planeZ, pb.z), Sub(pb.z, pa.z))
        x == Add(pa.x, Mul(t, Sub(pb.x, pa.x)))
        y == Add(pa.y, Mul(t, Sub(pb.y, pa.y)))
    IN  Vec(x, y, planeZ)

\* EdgeParam with the denominator reversed
EdgeParam_Reversed(pa, pb, planeZ) == Div(Sub(planeZ, pa.z), Sub(pa.z, pb.z))

\* geometry_utils.js:69 (and slicer_v2.js:66) t = (z - pa.z) / (pb.z - pa.z),
\* evaluated for a crossing edge only
EdgeParam(pa, pb, planeZ) == Div(Sub(planeZ, pa.z), Sub(pb.z, pa.z))

\* geometry_utils.js:69-72 the point of the edge at height z
Interpolate(pa, pb, planeZ) ==
    LET t == EdgeParam(pa, pb, planeZ)
        x == Add(pa.x, Mul(t, Sub(pb.x, pa.x)))
        y == Add(pa.y, Mul(t, Sub(pb.y, pa.y)))
    IN  Vec(x, y, planeZ)

\* a === b on numbers: false when either is NaN
StrictEq(a, b) == ~isNaN(a) /\ ~isNaN(b) /\ a = b

\* Vector3.equals
VecEquals(p, q) == StrictEq(p.x, q.x) /\ StrictEq(p.y, q.y) /\ StrictEq(p.z, q.z)

\* one iteration of the loop over the edges
EdgeStep(points, pa, pb, planeZ) ==
    IF EdgeCrosses(pa, pb, planeZ)
    THEN Append(points, Interpolate(pa, pb, planeZ))
    ELSE IF StrictEq(pa.z, planeZ) /\ StrictEq(pb.z, planeZ)
    THEN points
    ELSE IF StrictEq(pa.z, planeZ)
    THEN IF \E k \in 1..Len(points) : VecEquals(points[k], pa)
         THEN points
         ELSE Append(points, pa)
    ELSE points

TrianglePoints(v1, v2, v3, planeZ) ==
    EdgeStep(EdgeStep(EdgeStep(<< >>, v1, v2, planeZ), v2, v3, planeZ), v3, v1, planeZ)

\* the list of segments returned; << >> stands for null
getTriangleIntersectionSegments(v1, v2, v3, planeZ) ==
    LET points == TrianglePoints(v1, v2, v3, planeZ)
    IN  IF Len(points) >= 2 THEN << << points[1], points[2] >> >> ELSE << >>

\* how many points one triangle pushes (lines 72 and 81)
Pushes(v1, v2, v3, planeZ) == Len(TrianglePoints(v1, v2, v3, planeZ))

\* how many times line 69 (the division) is evaluated for one triangle
Divisions(v1, v2, v3, planeZ) ==
    (IF EdgeCrosses(v1, v2, planeZ) THEN 1 ELSE 0)
    + (IF EdgeCrosses(v2, v3, planeZ) THEN 1 ELSE 0)
    + (IF EdgeCrosses(v3, v1, planeZ) THEN 1 ELSE 0)

(***************************************************************************)
(* stitchSegments                                                          *)
(***************************************************************************)
precision == 6

getPointKey(v) == << toFixed(v.x, precision), toFixed(v.y, precision) >>

\* adj.get(k).push(e), after "if (!adj.has(k)) adj.set(k, [])"
AdjPush(graph, k, e) ==
    IF k \in DOMAIN graph
    THEN [graph EXCEPT ![k] = Append(@, e)]
    ELSE graph @@ (k :> << e >>)

\* the body of the first forEach, for the segment seg with index id
BuildStep(graph, seg, id) ==
    LET p1 == seg[1]
        p2 == seg[2]
        k1 == getPointKey(p1)
        k2 == getPointKey(p2)
        a1 == AdjPush(graph, k1, [point |-> p2, key |-> k2, id |-> id])
    IN  AdjPush(a1, k2, [point |-> p1, key |-> k1, id |-> id])

\* FirstUnvisited giving up at a visited neighbor (break for continue)
FirstUnvisited_Break(neighbors, visited) ==
    IF Len(neighbors) >= 1 /\ neighbors[1].id \notin visited THEN 1 ELSE 0

\* FirstUnvisited taking the last neighbor not visited
FirstUnvisited_Last(neighbors, visited) ==
    LET free == { k \in 1..Len(neighbors) : neighbors[k].id \notin visited }
    IN  IF free = {} THEN 0 ELSE CHOOSE k \in free : \A m \in free : k >= m

\* the index of the first neighbor whose segment is not visited, 0 if none
FirstUnvisited(neighbors, visited) ==
    LET free == { k \in 1..Len(neighbors) : neighbors[k].id \notin visited }
    IN  IF free = {} THEN 0 ELSE CHOOSE k \in free : \A m \in free : k <= m

\* the while (expanding) loop: the chain grown from currKey; ids lists the
\* segments in the order visitedSegments.add was called for this chain
RECURSIVE Walk(_, _, _, _, _)
Walk(graph, visited, ids, currentLoop, currKey) ==
    IF currKey \notin DOMAIN graph
    THEN [visited |-> visited, ids |-> ids, loop |-> currentLoop, key |-> currKey]
    ELSE LET neighbors == graph[currKey]
             k == FirstUnvisited(neighbors, visited)
         IN  IF k = 0
             THEN [visited |-> visited, ids |-> ids, loop |-> currentLoop, key |-> currKey]
             ELSE Only({ Walk(graph, v, i, l, neighbors[k].key) :
                         v \in {visited \cup {neighbors[k].id}},
                         i \in {Append(ids, neighbors[k].id)},
                         l \in {Append(currentLoop,
                                       << neighbors[k].point.x, neighbors[k].point.y >>)} })

\* TraverseStep walking on from the start point of the segment
TraverseStep_FromStart(segs, graph, visited, lps, id) ==
    IF id \in visited
    THEN [visited |-> visited, loops |-> lps, chain |-> << >>, ids |-> << >>]
    ELSE LET pStart == segs[id][1]
             pNext == segs[id][2]
             w == Walk(graph, visited \cup {id}, << id >>,
                       << << pStart.x, pStart.y >>, << pNext.x, pNext.y >> >>,
                       getPointKey(pStart))
         IN  [visited |-> w.visited,
              loops |-> IF Len(w.loop) >= 3 THEN Append(lps, w.loop) ELSE lps,
              chain |-> w.loop, ids |-> w.ids]

\* TraverseStep emitting every chain of 2 points or more
TraverseStep_KeepShort(segs, graph, visited, lps, id) ==
    IF id \in visited
    THEN [visited |-> visited, loops |-> lps, chain |-> << >>, ids |-> << >>]
    ELSE LET pStart == segs[id][1]
             pNext == segs[id][2]
             w == Walk(graph, visited \cup {id}, << id >>,
                       << << pStart.x, pStart.y >>, << pNext.x, pNext.y >> >>,
                       getPointKey(pNext))
         IN  [visited |-> w.visited,
              loops |-> IF Len(w.loop) >= 2 THEN Append(lps, w.loop) ELSE lps,
              chain |-> w.loop, ids |-> w.ids]

\* the body of the second forEach, for the segment with index startSegId
TraverseStep(segs, graph, visited, lps, id) ==
    IF id \in visited
    THEN [visited |-> visited, loops |-> lps, chain |-> << >>, ids |-> << >>]
    ELSE LET pStart == segs[id][1]
             pNext == segs[id][2]
             w == Walk(graph, visited \cup {id}, << id >>,
                       << << pStart.x, pStart.y >>, << pNext.x, pNext.y >> >>,
                       getPointKey(pNext))
         IN  [visited |-> w.visited,
              loops |-> IF Len(w.loop) >= 3 THEN Append(lps, w.loop) ELSE lps,
              chain |-> w.loop, ids |-> w.ids]

RECURSIVE BuildAll(_, _, _)
BuildAll(segs, graph, id) ==
    IF id > Len(segs) THEN graph
    ELSE Only({ BuildAll(segs, a, id + 1) : a \in {BuildStep(graph, segs[id], id)} })

RECURSIVE TraverseAll(_, _, _, _, _)
TraverseAll(segs, graph, visited, lps, id) ==
    IF id > Len(segs) THEN lps
    ELSE Only({ TraverseAll(segs, graph, r.visited, r.loops, id + 1) :
                 r \in {TraverseStep(segs, graph, visited, lps, id)} })

EmptyAdj == [k \in {} |-> << >>]

\* the second forEach, collecting for every chain the segments it marks
RECURSIVE ChainsOf(_, _, _, _, _)
ChainsOf(segs, graph, visited, acc, id) ==
    IF id > Len(segs) THEN acc
    ELSE Only({ ChainsOf(segs, graph, r.visited,
                         IF r.chain = << >> THEN acc ELSE Append(acc, r.ids), id + 1) :
                r \in {TraverseStep(segs, graph, visited, << >>, id)} })

\* the groups of segments that the returned loops are made of
StitchGroups(segs) ==
    LET cs == ChainsOf(segs, BuildAll(segs, EmptyAdj, 1), {}, << >>, 1)
    IN  { { cs[c][j] : j \in 1..Len(cs[c]) } : c \in { c \in 1..Len(cs) : Len(cs[c]) >= 2 } }

stitchSegments(segs) ==
    IF Len(segs) = 0 THEN << >>
    ELSE Only({ Only({ TraverseAll(s, a, {}, << >>, 1) :
                       a \in {BuildAll(s, EmptyAdj, 1)} }) : s \in {segs} })

(***************************************************************************)
(* stitchSegments of geometry_utils_v2.js, the one generateGeometry uses:  *)
(* 5 digits, and a segment with a NaN coordinate does not enter the graph  *)
(***************************************************************************)
precision_v2 == 5

getPointKey_v2(v) == << toFixed(v.x, precision_v2), toFixed(v.y, precision_v2) >>

BuildStep_v2(graph, seg, id) ==
    LET p1 == seg[1]
        p2 == seg[2]
        k1 == getPointKey_v2(p1)
        k2 == getPointKey_v2(p2)
        a1 == AdjPush(graph, k1, [point |-> p2, key |-> k2, id |-> id])
    IN  IF isNaN(p1.x) \/ isNaN(p1.y) \/ isNaN(p2.x) \/ isNaN(p2.y)
        THEN graph
        ELSE AdjPush(a1, k2, [point |-> p1, key |-> k1, id |-> id])

TraverseStep_v2(segs, graph, visited, lps, id) ==
    IF id \in visited
    THEN [visited |-> visited, loops |-> lps, chain |-> << >>, ids |-> << >>]
    ELSE LET pStart == segs[id][1]
             pNext == segs[id][2]
             w == Walk(graph, visited \cup {id}, << id >>,
                       << << pStart.x, pStart.y >>, << pNext.x, pNext.y >> >>,
                       getPointKey_v2(pNext))
         IN  [visited |-> w.visited,
              loops |-> IF Len(w.loop) >= 3 THEN Append(lps, w.loop) ELSE lps,
              chain |-> w.loop, ids |-> w.ids]

RECURSIVE BuildAll_v2(_, _, _)
BuildAll_v2(segs, graph, id) ==
    IF id > Len(segs) THEN graph
    ELSE Only({ BuildAll_v2(segs, a, id + 1) : a \in {BuildStep_v2(graph, segs[id], id)} })

RECURSIVE TraverseAll_v2(_, _, _, _, _)
TraverseAll_v2(segs, graph, visited, lps, id) ==
    IF id > Len(segs) THEN lps
    ELSE Only({ TraverseAll_v2(segs, graph, r.visited, r.loops, id + 1) :
                 r \in {TraverseStep_v2(segs, graph, visited, lps, id)} })

stitchSegments_v2(segs) ==
    IF Len(segs) = 0 THEN << >>
    ELSE Only({ Only({ TraverseAll_v2(s, a, {}, << >>, 1) :
                       a \in {BuildAll_v2(s, EmptyAdj, 1)} }) : s \in {segs} })

(***************************************************************************)
(* getSliceContours                                                        *)
(***************************************************************************)
RECURSIVE SliceSegments(_, _, _)
SliceSegments(triangles, planeZ, id) ==
    IF id > Len(triangles) THEN << >>
    ELSE getTriangleIntersectionSegments(triangles[id][1], triangles[id][2],
                                         triangles[id][3], planeZ)
         \o SliceSegments(triangles, planeZ, id + 1)

getSliceContours(triangles, planeZ) ==
    Only({ stitchSegments(segs) : segs \in {SliceSegments(triangles, planeZ, 1)} })

getSliceContours_v2(triangles, planeZ) ==
    Only({ stitchSegments_v2(segs) : segs \in {SliceSegments(triangles, planeZ, 1)} })

(***************************************************************************)
(* isPointInContours                                                       *)
(***************************************************************************)
\* Intersect counting an edge whose far end lies on the ray's line twice
Intersect_NonStrict(x, y, pi, pj) ==
    /\ Gt(pi[2], y) # Ge(pj[2], y)
    /\ pj[2] # pi[2]
    /\ Lt(x, Add(Div(Mul(Sub(pj[1], pi[1]), Sub(y, pi[2])), Sub(pj[2], pi[2])), pi[1]))

\* bubble_generator.js:137-138 the ray from (x, y) crosses the edge (pi, pj);
\* the division is evaluated only when the first conjunct holds
Intersect(x, y, pi, pj) ==
    /\ Gt(pi[2], y) # Gt(pj[2], y)
    /\ Lt(x, Add(Div(Mul(Sub(pj[1], pi[1]), Sub(y, pi[2])), Sub(pj[2], pi[2])), pi[1]))

\* ScanPolygon setting the flag where it should toggle it
RECURSIVE ScanPolygon_SetTrue(_, _, _, _, _)
ScanPolygon_SetTrue(x, y, polygon, i, isInside) ==
    IF i > Len(polygon) THEN isInside
    ELSE LET j == IF i = 1 THEN Len(polygon) ELSE i - 1
         IN  ScanPolygon_SetTrue(x, y, polygon, i + 1,
                 IF Intersect(x, y, polygon[i], polygon[j]) THEN TRUE ELSE isInside)

\* the inner for loop, from edge i on: j is i - 1, and the last index for the
\* first edge
RECURSIVE ScanPolygon(_, _, _, _, _)
ScanPolygon(x, y, polygon, i, isInside) ==
    IF i > Len(polygon) THEN isInside
    ELSE LET j == IF i = 1 THEN Len(polygon) ELSE i - 1
         IN  ScanPolygon(x, y, polygon, i + 1,
                 IF Intersect(x, y, polygon[i], polygon[j]) THEN ~isInside ELSE isInside)

RECURSIVE ScanContours(_, _, _, _, _)
ScanContours(x, y, outlines, k, isInside) ==
    IF k > Len(outlines) THEN isInside
    ELSE ScanContours(x, y, outlines, k + 1, ScanPolygon(x, y, outlines[k], 1, isInside))

isPointInContours(x, y, outlines) == ScanContours(x, y, outlines, 1, FALSE)

(***************************************************************************)
(* BubbleGenerator                                                         *)
(***************************************************************************)
\* one column of the grid: x fixed, m from m to endM
RECURSIVE GridColumn(_, _, _, _, _)
GridColumn(outlines, spacing, x, m, endM) ==
    IF m > endM THEN << >>
    ELSE LET y == Add(Mul(R(m), spacing), Div(spacing, R(2)))
         IN  (IF isPointInContours(x, y, outlines)
              THEN << [x |-> x, y |-> y] >> ELSE << >>)
             \o GridColumn(outlines, spacing, x, m + 1, endM)

RECURSIVE GridRows(_, _, _, _, _, _)
GridRows(outlines, spacing, n, endN, startM, endM) ==
    IF n > endN THEN << >>
    ELSE GridColumn(outlines, spacing, Add(Mul(R(n), spacing), Div(spacing, R(2))),
                    startM, endM)
         \o GridRows(outlines, spacing, n + 1, endN, startM, endM)

\* JavaScript numbers that are not finite: Infinity, -Infinity (and NaN above)
PosInf == << 1, 0 >>
NegInf == << -1, 0 >>

\* a / b for finite a and b, b possibly 0
JSDiv(a, b) ==
    IF b[1] # 0 THEN Div(a, b)
    ELSE IF a[1] > 0 THEN PosInf ELSE IF a[1] < 0 THEN NegInf ELSE NaN

JSMul(a, b) ==
    IF isNaN(a) \/ isNaN(b) THEN NaN
    ELSE IF a[2] = 0 \/ b[2] = 0
    THEN (IF a[1] = 0 \/ b[1] = 0 THEN NaN
          ELSE IF (a[1] > 0) = (b[1] > 0) THEN PosInf ELSE NegInf)
    ELSE Mul(a, b)

JSAdd(a, b) ==
    IF isNaN(a) \/ isNaN(b) THEN NaN
    ELSE IF a[2] = 0 /\ b[2] = 0 THEN (IF a = b THEN a ELSE NaN)
    ELSE IF a[2] = 0 THEN a
    ELSE IF b[2] = 0 THEN b
    ELSE Add(a, b)

\* a <= b
JSLe(a, b) ==
    IF isNaN(a) \/ isNaN(b) THEN FALSE
    ELSE IF a = b THEN TRUE
    ELSE IF a = NegInf \/ b = PosInf THEN TRUE
    ELSE IF a = PosInf \/ b = NegInf THEN FALSE
    ELSE Le(a, b)

\* Math.floor, Math.ceil, and n++ on an index
JSFloor(a) == IF a[2] = 0 THEN a ELSE R(Floor(a))
JSCeil(a) == IF a[2] = 0 THEN a ELSE R(Ceil(a))
JSInc(a) == IF a[2] = 0 THEN a ELSE JSAdd(a, R(1))

\* GridCoord without the half step
GridCoord_Corner(k, s) == JSMul(k, s)

\* bubble_generator.js:113 and 115: k * spacing + (spacing / 2)
GridCoord(k, s) == JSAdd(JSMul(k, s), JSDiv(s, R(2)))

\* bubble_generator.js:106-110: Math.floor((lo - (spacing / 2)) / spacing)
GridStart(lo, s) == JSFloor(JSDiv(Sub(lo, JSDiv(s, R(2))), s))
GridEnd(hi, s) == JSCeil(JSDiv(Sub(hi, JSDiv(s, R(2))), s))

\* bubble_generator.js:106-122 with spacing = 0 the bounds are (+-x) / 0: NaN for
\* x = 0 (n <= endN is then false and no point is produced), otherwise
\* -Infinity or Infinity, where n++ leaves n as it is and n <= endN stays true
GridDiverges(bounds, spacing) ==
    spacing = R(0) /\ bounds.min.x # R(0) /\ bounds.max.x # R(0)

\* bubble_generator.js:102-124, when the loops end
getGridPointsInContours(outlines, bounds, spacing) ==
    IF spacing = R(0) THEN << >> ELSE
    LET half == Div(spacing, R(2))
        startN == Floor(Div(Sub(bounds.min.x, half), spacing))
        endN == Ceil(Div(Sub(bounds.max.x, half), spacing))
        startM == Floor(Div(Sub(bounds.min.y, half), spacing))
        endM == Ceil(Div(Sub(bounds.max.y, half), spacing))
    IN  GridRows(outlines, spacing, startN, endN, startM, endM)

\* Math.cos(f * Math.PI) for the fractions f used here (cos(PI / 2) taken as 0)
CosPi(f) ==
    CASE f = R(0) -> R(1)
      [] f = << 1, 3 >> -> << 1, 2 >>
      [] f = << 1, 2 >> -> R(0)
      [] f = << 2, 3 >> -> << -1, 2 >>
      [] f = R(1) -> R(-1)

\* bubble_generator.js:33-37 the step for an overlap percentage
StepOf(r, overlap) ==
    Mul(Mul(r, R(2)), Sub(R(1), Div(overlap, R(100))))

\* bubble_generator.js:40 thetaLength as a fraction of PI
ThetaOf(percent) ==
    Sub(R(1), Div(Max2(R(0), Min2(R(100), percent)), R(100)))

\* CenterZ0Of with the offset added with the opposite sign
CenterZ0Of_Plus(minZ, r, theta) == Add(minZ, Mul(r, CosPi(theta)))

\* bubble_generator.js:43-44
CenterZ0Of(minZ, r, theta) == Add(minZ, Sub(R(0), Mul(r, CosPi(theta))))

\* CenterZOf with the layer index squared: the layers drift apart
CenterZOf_Squared(z0, layer, step) ==
    Add(z0, Mul(R(layer * layer), step))

\* bubble_generator.js:52
CenterZOf(z0, layer, step) == Add(z0, Mul(R(layer), step))

SampleMargin == << 1, 100 >>

\* bubble_generator.js:59
SampleZOf(minZ, maxZ, centerZ) ==
    Min2(Sub(maxZ, SampleMargin), Max2(Add(minZ, SampleMargin), centerZ))

\* bubble_generator.js:66-80 the spheres of one layer, one per grid point
RECURSIVE LayerSpheres(_, _, _, _, _, _)
LayerSpheres(points, k, centerZ, r, layer, theta) ==
    IF k > Len(points) THEN << >>
    ELSE << [x |-> points[k].x, y |-> points[k].y, z |-> centerZ, radius |-> r,
             thetaLength |-> IF layer = 0 THEN theta ELSE R(1)] >>
         \o LayerSpheres(points, k + 1, centerZ, r, layer, theta)

(***************************************************************************)
(* Input meshes: lists of world-space triangles << v1, v2, v3 >>            *)
(***************************************************************************)
Quad(a, b, c, d) == << << a, b, c >>, << a, c, d >> >>

\* THREE.BoxGeometry(10, 10, 10): one face, its two triangles (a,b,d), (b,c,d);
\* flip splits the face along its other diagonal
CubeSide == 10

BoxCorner(u, v, w, udir, vdir, wdir, ix, iy) ==
    LET h == CubeSide \div 2
        f == (u :> (CubeSide * ix - h) * udir) @@ (v :> (CubeSide * iy - h) * vdir)
             @@ (w :> h * wdir)
    IN  V(f["x"], f["y"], f["z"])

BoxFace(u, v, w, udir, vdir, wdir, flip) ==
    LET a == BoxCorner(u, v, w, udir, vdir, wdir, 0, 0)
        b == BoxCorner(u, v, w, udir, vdir, wdir, 0, 1)
        c == BoxCorner(u, v, w, udir, vdir, wdir, 1, 1)
        d == BoxCorner(u, v, w, udir, vdir, wdir, 1, 0)
    IN  IF flip THEN << << a, b, c >>, << a, c, d >> >>
        ELSE << << a, b, d >>, << b, c, d >> >>

Cube(flip) ==
    BoxFace("z", "y", "x", -1, -1, 1, flip) \o BoxFace("z", "y", "x", 1, -1, -1, flip)
    \o BoxFace("x", "z", "y", 1, 1, 1, flip) \o BoxFace("x", "z", "y", 1, -1, -1, flip)
    \o BoxFace("x", "y", "z", 1, -1, 1, flip) \o BoxFace("x", "y", "z", -1, -1, -1, flip)

\* THREE.OctahedronGeometry(10)
OctaRadius == 10

Octahedron ==
    LET r == OctaRadius
        vs == << V(r, 0, 0), V(-r, 0, 0), V(0, r, 0), V(0, -r, 0), V(0, 0, r), V(0, 0, -r) >>
        t(a, b, c) == << vs[a + 1], vs[b + 1], vs[c + 1] >>
    IN  << t(0, 2, 4), t(0, 4, 3), t(0, 3, 5), t(0, 5, 2),
           t(1, 2, 5), t(1, 5, 3), t(1, 3, 4), t(1, 4, 2) >>

\* THREE.ConeGeometry(10, 15, 4): the pyramid, axis y, apex at y = 15/2
ConeRadius == 10
ConeHeight == 15

Pyramid ==
    LET r == ConeRadius
        top == << ConeHeight, 2 >>
        bot == << -ConeHeight, 2 >>
        ring == << Vec(R(0), bot, R(r)), Vec(R(r), bot, R(0)),
                   Vec(R(0), bot, R(-r)), Vec(R(-r), bot, R(0)) >>
        nxt(k) == ring[(k % 4) + 1]
        apex == Vec(R(0), top, R(0))
        centre == Vec(R(0), bot, R(0))
    IN  << << ring[1], nxt(1), apex >>, << ring[2], nxt(2), apex >>,
           << ring[3], nxt(3), apex >>, << ring[4], nxt(4), apex >>,
           << nxt(1), ring[1], centre >>, << nxt(2), ring[2], centre >>,
           << nxt(3), ring[3], centre >>, << nxt(4), ring[4], centre >> >>

\* an input mesh of getSliceContours: an irregular tetrahedron whose four
\* vertices lie at four different heights
SkewTetrahedron ==
    LET a == V(0, 0, -6)
        b == V(6, 0, -2)
        c == V(0, 6, 1)
        d == V(-3, -3, 6)
    IN  << << c, b, a >>, << a, d, c >>, << b, d, a >>, << c, d, b >> >>

\* a closed genus-1 solid: the square frame between the outer square of half
\* side 3 and the inner square of half side 1, of half thickness 1; upright
\* (the hole runs along y) or lying flat (the hole runs along z)
FramePoint(flat, a, b, t) == IF flat THEN V(a, b, t) ELSE V(a, t, b)

\* the frame between the squares of half side ro and ri, of half thickness h
FrameOf(flat, ro, ri, h) ==
    LET o == << << -ro, -ro >>, << ro, -ro >>, << ro, ro >>, << -ro, ro >> >>
        n == << << -ri, -ri >>, << ri, -ri >>, << ri, ri >>, << -ri, ri >> >>
        O(k, t) == FramePoint(flat, o[k][1], o[k][2], t)
        I(k, t) == FramePoint(flat, n[k][1], n[k][2], t)
        nx(k) == (k % 4) + 1
        side(k) == Quad(O(k, -h), O(nx(k), -h), I(nx(k), -h), I(k, -h))
                   \o Quad(O(k, h), O(nx(k), h), I(nx(k), h), I(k, h))
                   \o Quad(O(k, -h), O(nx(k), -h), O(nx(k), h), O(k, h))
                   \o Quad(I(k, -h), I(nx(k), -h), I(nx(k), h), I(k, h))
    IN  side(1) \o side(2) \o side(3) \o side(4)

Frame(flat) == FrameOf(flat, 3, 1, 1)

Meshes ==
    [cube |-> Cube(FALSE), cubeFlip |-> Cube(TRUE), octahedron |-> Octahedron,
     pyramid |-> Pyramid, tetrahedron |-> SkewTetrahedron,
     frame |-> Frame(FALSE), frameFlat |-> Frame(TRUE)]

\* the order in which the triangles and their vertices come from the buffer
Rotate(seq, k) ==
    [j \in 1..Len(seq) |-> seq[((j - 1 + k) % Len(seq)) + 1]]

Reverse(seq) == [j \in 1..Len(seq) |-> seq[Len(seq) + 1 - j]]

RotateEach(triangles, vrot) ==
    [j \in 1..Len(triangles) |-> Rotate(triangles[j], vrot)]

\* the same triangles with the opposite winding
Mirror(triangles) ==
    [j \in 1..Len(triangles) |-> << triangles[j][1], triangles[j][3], triangles[j][2] >>]

Reorder(triangles, shift, rev, vrot, mirror) ==
    LET ts == RotateEach(Rotate(IF rev THEN Reverse(triangles) ELSE triangles, shift),
                         vrot)
    IN  IF mirror THEN Mirror(ts) ELSE ts

\* THREE.Box3().setFromObject(mesh): box.min.z and box.max.z
ZValues(triangles) == { triangles[j][k].z : j \in 1..Len(triangles), k \in 1..3 }
MinZ(triangles) ==
    CHOOSE a \in ZValues(triangles) : \A b \in ZValues(triangles) : Le(a, b)
MaxZ(triangles) ==
    CHOOSE a \in ZValues(triangles) : \A b \in ZValues(triangles) : Ge(a, b)

Least(S) == CHOOSE a \in S : \A b \in S : Le(a, b)
Greatest(S) == CHOOSE a \in S : \A b \in S : Ge(a, b)

\* new THREE.Box3().setFromObject(mesh)
Box3(triangles) ==
    LET verts == Only({ { t[j][k] : j \in 1..Len(t), k \in 1..3 } : t \in {triangles} })
    IN  Only({ [min |-> [x |-> Least({ v.x : v \in vs }), y |-> Least({ v.y : v \in vs }),
                         z |-> Least({ v.z : v \in vs })],
                max |-> [x |-> Greatest({ v.x : v \in vs }),
                         y |-> Greatest({ v.y : v \in vs }),
                         z |-> Greatest({ v.z : v \in vs })]] : vs \in {verts} })

\* the heights sliced: z0 = minZ + k * step, step = (maxZ - minZ) / 6, taken
\* every half step, from Outside half steps below minZ to Outside above maxZ
SliceSteps == 6
Outside == 1
MaxShift == 1

HeightIndices == (0 - Outside)..(2 * SliceSteps + Outside)

Height(triangles, k) ==
    LET step == Div(Sub(MaxZ(triangles), MinZ(triangles)), R(SliceSteps))
    IN  Add(MinZ(triangles), Mul(<< k, 2 >>, step))

(***************************************************************************)
(* State                                                                   *)
(***************************************************************************)
VARIABLES
    object,            \* which mesh is sliced
    mesh,              \* its triangles, in buffer order
    z,                 \* the height of the slicing plane
    triIndex,          \* getSliceContours: triangles done
    triangleSegments,  \* getSliceContours: what the last triangle returned
    segments,          \* getSliceContours: the segments collected
    divisions,         \* how many interpolations (line 69) were evaluated
    pushes,            \* how many points the triangles pushed
    adj,               \* stitchSegments: key -> list of {point, key, id}
    segIndex,          \* stitchSegments: segments entered into adj
    visitedSegments,   \* stitchSegments: ids of the visited segments
    startSegId,        \* stitchSegments: start segments tried
    loops,             \* stitchSegments: the loops built
    chains,            \* stitchSegments: every chain built, emitted or dropped
    chainIds,          \* stitchSegments: the segments of every chain, as visited
    pc,                \* "triangles", "build", "traverse", "done"; "idle"
    stitchInput,       \* stitchSegments called alone: the list and how it is arranged
    sizeSlider,        \* main.js: bubbleSizeSlider.value
    overlapSlider,     \* main.js: bubbleOverlapSlider.value
    flattenSlider,     \* main.js: baseFlattenSlider.value
    bubbleMode,        \* main.js: bubbleModeToggle.checked
    originalMesh,      \* slicer_v2.js: originalMesh
    originalModelHeight, \* slicer_v2.js: originalModelHeight
    handler,           \* slicer_v2.js: slider.oninput is set
    lastInput,         \* the last run of slider.oninput: who dispatched, what was sliced
    disposed,          \* the geometries dispose() was called on
    nextId,            \* the objects created so far, plus one
    loads,             \* loader.load calls whose callback has not run
    uploads,           \* files chosen so far
    lastCall,          \* the slicer function the last event ended in
    modelFile,         \* the file originalMesh was read from
    shape,             \* isPointInContours: what the contours outline
    contours,          \* isPointInContours: the loops
    query,             \* isPointInContours: the point << x, y >>
    inside,            \* isPointInContours: the value returned
    cpc,               \* "call", "return"; "idle"
    target,            \* generateGeometry: which mesh is filled
    radius,            \* generateGeometry: argument
    overlapV,          \* generateGeometry: argument
    overlapH,          \* generateGeometry: argument
    baseFlattenPercent,\* generateGeometry: argument
    bubbleSize,        \* BubbleGenerator: this.bubbleSize
    box,               \* generateGeometry: the bounding box of the mesh
    layerStep,         \* generateGeometry
    horizontalStep,    \* generateGeometry
    thetaLength,       \* generateGeometry: as a fraction of PI
    centerZ0,          \* generateGeometry
    layerIndex,        \* generateGeometry
    centerZs,          \* generateGeometry: centerZ of every layer handled
    sampleZs,          \* generateGeometry: sampleZ of every layer handled
    geometries,        \* generateGeometry: the spheres pushed
    result,            \* generateGeometry: "geometry" or "null"
    layerContours,     \* generateGeometry: contours of the last layer handled
    layerPoints,       \* generateGeometry: points of the last layer handled
    spin,              \* getGridPointsInContours: iterations of a loop that cannot end
    gpc,               \* "call", "loop", "grid", "merge", "return", "done"; "idle"
    callsLeft,         \* how many more calls follow
    runs,              \* the arguments and placements of the calls already made
    currentMesh,       \* slicer_v2.js: currentMesh
    ghostMesh,         \* slicer_v2.js: ghostMesh
    activeSliceTarget, \* slicer_v2.js: activeSliceTarget
    modelHeight,       \* slicer_v2.js: modelHeight
    useCaps,           \* slicer_v2.js: useCaps
    sceneMeshes,       \* the meshes in the scene
    gBox,              \* getGridPointsInContours: argument box
    gContours,         \* getGridPointsInContours: argument contours
    gridSpacing,           \* getGridPointsInContours: argument
    gridPoints,            \* getGridPointsInContours
    gridN,                 \* getGridPointsInContours: index of the outer loop
    gridEndN,              \* getGridPointsInContours
    gridM,                 \* getGridPointsInContours: index of the inner loop
    gridStartM,            \* getGridPointsInContours
    gridEndM,              \* getGridPointsInContours
    gridX,                 \* getGridPointsInContours
    iterations,        \* loop iterations executed, counted modulo IterWrap
    gridpc             \* "call", "outer", "inner", "return"; "idle"

sliceVars == << object, mesh, z, triIndex, triangleSegments, segments, divisions,
                pushes, adj, segIndex, visitedSegments, startSegId, loops, chains, chainIds,
                pc >>
containVars == << shape, contours, query, inside, cpc >>
argVars == << target, radius, overlapV, overlapH, baseFlattenPercent >>
setupVars == << bubbleSize, box, layerStep, horizontalStep, thetaLength, centerZ0 >>
layerVars == << layerIndex, centerZs, sampleZs, geometries, layerContours, layerPoints >>
slicerVars == << currentMesh, originalMesh, ghostMesh, activeSliceTarget, modelHeight,
                 originalModelHeight, useCaps, sceneMeshes, disposed, handler,
                 lastInput, nextId >>
genVars == << argVars, setupVars, layerVars, result, spin, gpc, callsLeft, runs,
              slicerVars >>
gridVars == << gBox, gContours, gridSpacing, gridPoints, gridN, gridEndN, gridM, gridStartM, gridEndM, gridX,
               iterations, gridpc >>
sliderVars == << sizeSlider, overlapSlider, flattenSlider >>
appVars == << sliderVars, bubbleMode, loads, uploads, lastCall, modelFile >>
vars == << sliceVars, containVars, genVars, gridVars, stitchInput, appVars >>
notSliceVars == << containVars, genVars, gridVars, stitchInput, appVars >>
notContainVars == << sliceVars, genVars, gridVars, stitchInput, appVars >>
notGenVars == << sliceVars, containVars, gridVars, stitchInput, appVars >>
notGridVars == << sliceVars, containVars, genVars, stitchInput, appVars >>

\* main.js before any event
IdleApp ==
    /\ sizeSlider = R(1)
    /\ overlapSlider = R(0)
    /\ flattenSlider = R(50)
    /\ bubbleMode = FALSE
    /\ loads = {}
    /\ uploads = 0
    /\ lastCall = "none"
    /\ modelFile = "none"

(***************************************************************************)
(* The slicer's module state and its functions: slicer_v2.js. An object is *)
(* named by its kind, the order of its creation and the geometry it uses:  *)
(* a clone shares the geometry of the object it was cloned from.           *)
(***************************************************************************)
MeshObject(kind, id, geo) == [kind |-> kind, id |-> id, geo |-> geo]
\* no object: null
Null == MeshObject("null", 0, 0)
NoInput == [by |-> "none", target |-> Null, error |-> FALSE]

\* a THREE.Mesh has a geometry property; the Group that OBJLoader returns and
\* the clone of it have none
HasGeometry(m) == m.kind \in {"bubbles", "bubblesGhost"}

\* what generateGeometry hands over: a merged geometry with its top, or null
Geometry(top) == [ok |-> TRUE, top |-> top]
NullGeometry == [ok |-> FALSE, top |-> R(0)]

\* slicer_v2.js:6-18
Boot ==
    [currentMesh |-> Null, originalMesh |-> Null, ghostMesh |-> Null,
     activeSliceTarget |-> Null, modelHeight |-> R(10), originalModelHeight |-> R(10),
     useCaps |-> TRUE, scene |-> {}, disposed |-> {}, handler |-> FALSE,
     lastInput |-> NoInput, nextId |-> 1]

SlicerState ==
    [currentMesh |-> currentMesh, originalMesh |-> originalMesh, ghostMesh |-> ghostMesh,
     activeSliceTarget |-> activeSliceTarget, modelHeight |-> modelHeight,
     originalModelHeight |-> originalModelHeight, useCaps |-> useCaps,
     scene |-> sceneMeshes, disposed |-> disposed, handler |-> handler,
     lastInput |-> lastInput, nextId |-> nextId]

Holds(S) ==
    /\ currentMesh = S.currentMesh
    /\ originalMesh = S.originalMesh
    /\ ghostMesh = S.ghostMesh
    /\ activeSliceTarget = S.activeSliceTarget
    /\ modelHeight = S.modelHeight
    /\ originalModelHeight = S.originalModelHeight
    /\ useCaps = S.useCaps
    /\ sceneMeshes = S.scene
    /\ disposed = S.disposed
    /\ handler = S.handler
    /\ lastInput = S.lastInput
    /\ nextId = S.nextId

Install(S) ==
    /\ currentMesh' = S.currentMesh
    /\ originalMesh' = S.originalMesh
    /\ ghostMesh' = S.ghostMesh
    /\ activeSliceTarget' = S.activeSliceTarget
    /\ modelHeight' = S.modelHeight
    /\ originalModelHeight' = S.originalModelHeight
    /\ useCaps' = S.useCaps
    /\ sceneMeshes' = S.scene
    /\ disposed' = S.disposed
    /\ handler' = S.handler
    /\ lastInput' = S.lastInput
    /\ nextId' = S.nextId

\* slicer_v2.js:208-307 an input event on the slider: slider.oninput, if one is
\* set, runs; line 223 throws a TypeError when currentMesh is null, otherwise
\* line 235 picks the mesh that is sliced
onInput(S, by) ==
    IF ~S.handler THEN S
    ELSE IF S.currentMesh = Null
    THEN [S EXCEPT !.lastInput = [by |-> by, target |-> Null, error |-> TRUE]]
    ELSE [S EXCEPT !.lastInput =
              [by |-> by,
               target |-> IF S.activeSliceTarget # Null THEN S.activeSliceTarget
                          ELSE S.currentMesh,
               error |-> FALSE]]

\* slicer_v2.js:537-549
setSliceTarget(S, sliced) == onInput([S EXCEPT !.activeSliceTarget = sliced], "setSliceTarget")

\* slicer_v2.js:371-386
updateSliceSettings(S) == onInput(S, "updateSliceSettings")

\* slicer_v2.js:81-115 up to loader.load
setupSlicer(S) ==
    IF S.currentMesh = Null THEN S
    ELSE [S EXCEPT !.scene = @ \ {S.currentMesh, S.ghostMesh},
                   !.disposed = @ \cup {S.currentMesh.geo}
                                  \cup (IF S.ghostMesh # Null THEN {S.ghostMesh.geo} ELSE {}),
                   !.currentMesh = Null,
                   !.ghostMesh = Null,
                   !.useCaps = TRUE]

\* slicer_v2.js:116-313 the callback of loader.load
loadCallback(S, height) ==
    LET loaded == MeshObject("model", S.nextId, S.nextId)
        ghost == MeshObject("ghost", S.nextId + 1, S.nextId)
    IN  onInput([S EXCEPT !.modelHeight = height,
                          !.originalModelHeight = height,
                          !.currentMesh = loaded,
                          !.originalMesh = loaded,
                          !.ghostMesh = ghost,
                          !.scene = @ \cup {loaded, ghost},
                          !.handler = TRUE,
                          !.nextId = @ + 2], "load")

\* slicer_v2.js:410-423 and 471-480: the meshes shown leave the scene; the
\* geometry of a Mesh is disposed, the original's never
RemoveShown(S) ==
    [S EXCEPT !.scene = @ \ {S.currentMesh, S.ghostMesh},
              !.disposed = @ \cup (IF S.currentMesh # Null /\ HasGeometry(S.currentMesh)
                                       /\ S.currentMesh # S.originalMesh
                                    THEN {S.currentMesh.geo} ELSE {})
                             \cup (IF S.ghostMesh # Null /\ HasGeometry(S.ghostMesh)
                                    THEN {S.ghostMesh.geo} ELSE {})]

\* restoreOriginalGeometry forgetting the height
restoreOriginalGeometry_KeepHeight(S) ==
    IF S.originalMesh = Null THEN S
    ELSE LET ghost == MeshObject("ghost", S.nextId, S.originalMesh.geo)
         IN  setSliceTarget([RemoveShown(S) EXCEPT !.currentMesh = S.originalMesh,
                                                   !.ghostMesh = ghost,
                                                   !.scene = @ \cup {S.originalMesh, ghost},
                                                   !.nextId = @ + 1],
                            S.originalMesh)

\* slicer_v2.js:402-453
restoreOriginalGeometry(S) ==
    IF S.originalMesh = Null THEN S
    ELSE LET ghost == MeshObject("ghost", S.nextId, S.originalMesh.geo)
         IN  setSliceTarget([RemoveShown(S) EXCEPT !.currentMesh = S.originalMesh,
                                                   !.modelHeight = S.originalModelHeight,
                                                   !.ghostMesh = ghost,
                                                   !.scene = @ \cup {S.originalMesh, ghost},
                                                   !.nextId = @ + 1],
                            S.originalMesh)

\* slicer_v2.js:462-535
setTargetGeometry(S, geometry, renderCaps) ==
    IF ~geometry.ok THEN S
    ELSE LET shown == MeshObject("bubbles", S.nextId, S.nextId)
             ghost == MeshObject("bubblesGhost", S.nextId + 1, S.nextId)
         IN  setSliceTarget([RemoveShown(S) EXCEPT !.currentMesh = shown,
                                                   !.ghostMesh = ghost,
                                                   !.scene = @ \cup {shown, ghost},
                                                   !.modelHeight = geometry.top,
                                                   !.useCaps = renderCaps,
                                                   !.nextId = @ + 2],
                            shown)

NoStitchInput ==
    stitchInput = [name |-> "none", version |-> "none", base |-> << >>,
                   order |-> << >>, swapped |-> {}]

IdleGrid ==
    /\ gBox = [min |-> Vec(R(0), R(0), R(0)), max |-> Vec(R(0), R(0), R(0))]
    /\ gContours = << >>
    /\ gridSpacing = R(1)
    /\ gridPoints = << >>
    /\ gridN = R(0)
    /\ gridEndN = R(0)
    /\ gridM = R(0)
    /\ gridStartM = R(0)
    /\ gridEndM = R(0)
    /\ gridX = R(0)
    /\ iterations = 0
    /\ gridpc = "idle"

\* new BubbleGenerator(): bubble_generator.js:6-9
NoBox == [min |-> Vec(R(0), R(0), R(0)), max |-> Vec(R(0), R(0), R(0))]

IdleGen ==
    /\ target = "none"
    /\ radius = R(0)
    /\ overlapV = R(0)
    /\ overlapH = R(0)
    /\ baseFlattenPercent = R(0)
    /\ bubbleSize = << 1, 2 >>
    /\ box = NoBox
    /\ layerStep = R(0)
    /\ horizontalStep = R(0)
    /\ thetaLength = R(0)
    /\ centerZ0 = R(0)
    /\ layerIndex = 0
    /\ centerZs = << >>
    /\ sampleZs = << >>
    /\ geometries = << >>
    /\ result = "none"
    /\ layerContours = << >>
    /\ layerPoints = << >>
    /\ spin = 0
    /\ gpc = "idle"
    /\ callsLeft = 0
    /\ runs = << >>
    /\ Holds(Boot)

IdleContain ==
    /\ shape = [kind |-> "none", halves |-> << >>]
    /\ contours = << >>
    /\ query = << R(0), R(0) >>
    /\ inside = FALSE
    /\ cpc = "idle"

Init ==
    /\ object \in DOMAIN Meshes
    /\ \E triangles \in {Meshes[object]} :
           /\ \E shift \in 0..MaxShift, rev \in BOOLEAN, vrot \in 0..2,
                 mirror \in BOOLEAN :
                  mesh = Reorder(triangles, shift, rev, vrot, mirror)
           /\ \E k \in HeightIndices : z = Height(triangles, k)
    /\ triIndex = 0
    /\ triangleSegments = << >>
    /\ segments = << >>
    /\ divisions = 0
    /\ pushes = 0
    /\ adj = EmptyAdj
    /\ segIndex = 0
    /\ visitedSegments = {}
    /\ startSegId = 0
    /\ loops = << >>
    /\ chains = << >>
    /\ chainIds = << >>
    /\ pc = "triangles"
    /\ NoStitchInput
    /\ IdleApp
    /\ IdleContain
    /\ IdleGen
    /\ IdleGrid

\* getSliceContours, lines 26-47: one triangle of the traversal
SliceTriangle ==
    /\ pc = "triangles"
    /\ triIndex < Len(mesh)
    /\ LET t == mesh[triIndex + 1]
           ts == getTriangleIntersectionSegments(t[1], t[2], t[3], z)
       IN  /\ triangleSegments' = ts
           /\ segments' = segments \o ts
           /\ divisions' = divisions + Divisions(t[1], t[2], t[3], z)
           /\ pushes' = pushes + Pushes(t[1], t[2], t[3], z)
    /\ triIndex' = triIndex + 1
    /\ UNCHANGED << object, mesh, z, adj, segIndex, visitedSegments, startSegId,
                    loops, chains, chainIds, pc >>
    /\ UNCHANGED notSliceVars

\* getSliceContours line 51 and stitchSegments lines 102-112
StitchEnter ==
    /\ pc = "triangles"
    /\ triIndex = Len(mesh)
    /\ pc' = IF Len(segments) = 0 THEN "done" ELSE "build"
    /\ UNCHANGED << object, mesh, z, triIndex, triangleSegments, segments, divisions,
                    pushes, adj, segIndex, visitedSegments, startSegId, loops, chains,
                    chainIds >>
    /\ UNCHANGED notSliceVars

\* stitchSegments lines 114-124: one segment enters the graph
BuildGraph ==
    /\ pc = "build"
    /\ adj' = BuildStep(adj, segments[segIndex + 1], segIndex + 1)
    /\ segIndex' = segIndex + 1
    /\ pc' = IF segIndex + 1 = Len(segments) THEN "traverse" ELSE "build"
    /\ UNCHANGED << object, mesh, z, triIndex, triangleSegments, segments, divisions,
                    pushes, visitedSegments, startSegId, loops, chains, chainIds >>
    /\ UNCHANGED notSliceVars

\* stitchSegments lines 127-175: one start segment, its whole chain
Traverse ==
    /\ pc = "traverse"
    /\ LET r == TraverseStep(segments, adj, visitedSegments, loops, startSegId + 1)
       IN  /\ visitedSegments' = r.visited
           /\ loops' = r.loops
           /\ chains' = IF r.chain = << >> THEN chains ELSE Append(chains, r.chain)
           /\ chainIds' = IF r.chain = << >> THEN chainIds ELSE Append(chainIds, r.ids)
    /\ startSegId' = startSegId + 1
    /\ pc' = IF startSegId + 1 = Len(segments) THEN "done" ELSE "traverse"
    /\ UNCHANGED << object, mesh, z, triIndex, triangleSegments, segments, divisions,
                    pushes, adj, segIndex >>
    /\ UNCHANGED notSliceVars

Next == SliceTriangle \/ StitchEnter \/ BuildGraph \/ Traverse

Spec == Init /\ [][Next]_vars

(***************************************************************************)
(* stitchSegments called on a list of segments, in every order             *)
(***************************************************************************)
P2(x, y) == Vec(R(x), R(y), R(0))
\* a point whose x is NaN
PNaN == Vec(NaN, R(0), R(0))

\* a closed square; an open path; a closed triangle with a degenerate segment at
\* one corner (a slice through a vertex); a closed triangle and a segment from
\* a NaN point to one of its corners
StitchCases ==
    [square |-> << << P2(0, 0), P2(4, 0) >>, << P2(4, 0), P2(4, 4) >>,
                   << P2(4, 4), P2(0, 4) >>, << P2(0, 4), P2(0, 0) >> >>,
     path |-> << << P2(0, 0), P2(4, 0) >>, << P2(4, 0), P2(4, 4) >>,
                 << P2(4, 4), P2(0, 4) >> >>,
     vertex |-> << << P2(0, 0), P2(4, 0) >>, << P2(4, 0), P2(0, 4) >>,
                   << P2(0, 4), P2(0, 0) >>, << P2(0, 0), P2(0, 0) >> >>,
     nan |-> << << P2(0, 0), P2(4, 0) >>, << P2(4, 0), P2(0, 4) >>,
                << P2(0, 4), P2(0, 0) >>, << PNaN, P2(0, 0) >> >>]

Perms(n) == { f \in [1..n -> 1..n] : \A a, b \in 1..n : a # b => f[a] # f[b] }

\* the list with its segments in the given order, those in swapped reversed
Arrange(base, order, swapped) ==
    [i \in 1..Len(base) |->
        IF order[i] \in swapped THEN << base[order[i]][2], base[order[i]][1] >>
        ELSE base[order[i]]]

InitStitch ==
    /\ IdleApp
    /\ IdleContain
    /\ IdleGen
    /\ IdleGrid
    /\ \E name \in DOMAIN StitchCases, version \in {"v1", "v2"} :
       \E base \in {StitchCases[name]} :
       \E order \in Perms(Len(base)), swapped \in SUBSET (1..Len(base)) :
           /\ stitchInput = [name |-> name, version |-> version, base |-> base,
                             order |-> order, swapped |-> swapped]
           /\ segments = Arrange(base, order, swapped)
           /\ pc = IF version = "v1" THEN "build" ELSE "build_v2"
    /\ object = "none"
    /\ mesh = << >>
    /\ z = R(0)
    /\ triIndex = 0
    /\ triangleSegments = << >>
    /\ divisions = 0
    /\ pushes = 0
    /\ adj = EmptyAdj
    /\ segIndex = 0
    /\ visitedSegments = {}
    /\ startSegId = 0
    /\ loops = << >>
    /\ chains = << >>
    /\ chainIds = << >>

\* geometry_utils_v2.js stitchSegments lines 238-255: one segment, entered into
\* the graph unless it has a NaN coordinate
BuildGraph_v2 ==
    /\ pc = "build_v2"
    /\ adj' = BuildStep_v2(adj, segments[segIndex + 1], segIndex + 1)
    /\ segIndex' = segIndex + 1
    /\ pc' = IF segIndex + 1 = Len(segments) THEN "traverse_v2" ELSE "build_v2"
    /\ UNCHANGED << object, mesh, z, triIndex, triangleSegments, segments, divisions,
                    pushes, visitedSegments, startSegId, loops, chains, chainIds >>
    /\ UNCHANGED notSliceVars

\* geometry_utils_v2.js stitchSegments lines 260-302: one start segment
Traverse_v2 ==
    /\ pc = "traverse_v2"
    /\ LET r == TraverseStep_v2(segments, adj, visitedSegments, loops, startSegId + 1)
       IN  /\ visitedSegments' = r.visited
           /\ loops' = r.loops
           /\ chains' = IF r.chain = << >> THEN chains ELSE Append(chains, r.chain)
           /\ chainIds' = IF r.chain = << >> THEN chainIds ELSE Append(chainIds, r.ids)
    /\ startSegId' = startSegId + 1
    /\ pc' = IF startSegId + 1 = Len(segments) THEN "done" ELSE "traverse_v2"
    /\ UNCHANGED << object, mesh, z, triIndex, triangleSegments, segments, divisions,
                    pushes, adj, segIndex >>
    /\ UNCHANGED notSliceVars

NextStitch == BuildGraph \/ Traverse \/ BuildGraph_v2 \/ Traverse_v2

SpecStitch == InitStitch /\ [][NextStitch]_vars

(***************************************************************************)
(* isPointInContours on the loops of a slice and on nested loops           *)
(***************************************************************************)
NestMax == 3
QMax == 7

IdleSlice ==
    /\ object = "none"
    /\ mesh = << >>
    /\ z = R(0)
    /\ triIndex = 0
    /\ triangleSegments = << >>
    /\ segments = << >>
    /\ divisions = 0
    /\ pushes = 0
    /\ adj = EmptyAdj
    /\ segIndex = 0
    /\ visitedSegments = {}
    /\ startSegId = 0
    /\ loops = << >>
    /\ chains = << >>
    /\ chainIds = << >>
    /\ pc = "idle"

\* the loops getSliceContours returns for the cube at z0 = 0, in the sampled
\* buffer orders
CubeSlices ==
    { getSliceContours(Reorder(Cube(flip), shift, rev, vrot, mirror), R(0)) :
        flip \in BOOLEAN, shift \in 0..MaxShift, rev \in BOOLEAN, vrot \in 0..2,
        mirror \in BOOLEAN }

\* the square of half side h around the origin as a loop: counter-clockwise
\* or clockwise, with or without its first point repeated at the end
Square(h, cw, closed) ==
    LET ccw == << << R(-h), R(-h) >>, << R(h), R(-h) >>, << R(h), R(h) >>, << R(-h), R(h) >> >>
        ring == IF cw THEN Reverse(ccw) ELSE ccw
    IN  IF closed THEN Append(ring, ring[1]) ELSE ring

\* nested squares of half sides 2 * halves[k], in the order of halves
NestedContours(halves, winding, closed) ==
    [k \in 1..Len(halves) |->
        Square(2 * halves[k],
               winding = "cw" \/ (winding = "alternate" /\ k % 2 = 1), closed)]

\* the orders in which up to NestMax nested loops can come
NestOrders ==
    { s \in UNION { [1..m -> 1..NestMax] : m \in 1..NestMax } :
        \A a, b \in DOMAIN s : a # b => s[a] # s[b] }

QueryPoints == { << R(a), R(b) >> : a \in (0 - QMax)..QMax, b \in (0 - QMax)..QMax }

InitContain ==
    /\ IdleSlice
    /\ NoStitchInput
    /\ IdleApp
    /\ IdleGen
    /\ IdleGrid
    /\ \/ /\ contours \in CubeSlices
          /\ shape = [kind |-> "cube", halves |-> << CubeSide \div 2 >>]
       \/ \E s \in NestOrders, winding \in {"ccw", "cw", "alternate"}, closed \in BOOLEAN :
              /\ contours = NestedContours(s, winding, closed)
              /\ shape = [kind |-> "nested", halves |-> [k \in DOMAIN s |-> 2 * s[k]]]
    /\ query \in QueryPoints
    /\ inside = FALSE
    /\ cpc = "call"

\* bubble_generator.js:129-143
ClassifyPoint ==
    /\ cpc = "call"
    /\ inside' = isPointInContours(query[1], query[2], contours)
    /\ cpc' = "return"
    /\ UNCHANGED << notContainVars, shape, contours, query >>

NextContain == ClassifyPoint

SpecContain == InitContain /\ [][NextContain]_vars

(***************************************************************************)
(* generateGeometry                                                        *)
(***************************************************************************)
LayerCap == 700
MaxRadiusHalves == 4
SpinWrap == 2

\* an axis-aligned box between two corners, 12 triangles
Box(lo, hi) ==
    LET c(i, j, k) == Vec(IF i = 0 THEN lo.x ELSE hi.x, IF j = 0 THEN lo.y ELSE hi.y,
                          IF k = 0 THEN lo.z ELSE hi.z)
    IN  Quad(c(0, 0, 0), c(0, 1, 0), c(1, 1, 0), c(1, 0, 0))
        \o Quad(c(0, 0, 1), c(1, 0, 1), c(1, 1, 1), c(0, 1, 1))
        \o Quad(c(0, 0, 0), c(1, 0, 0), c(1, 0, 1), c(0, 0, 1))
        \o Quad(c(1, 0, 0), c(1, 1, 0), c(1, 1, 1), c(1, 0, 1))
        \o Quad(c(1, 1, 0), c(0, 1, 0), c(0, 1, 1), c(1, 1, 1))
        \o Quad(c(0, 1, 0), c(0, 0, 0), c(0, 0, 1), c(0, 1, 1))

Translate(triangles, d) ==
    LET moved(v) == Vec(Add(v.x, d.x), Add(v.y, d.y), Add(v.z, d.z))
        all == [j \in 1..Len(triangles) |->
                   << moved(triangles[j][1]), moved(triangles[j][2]),
                      moved(triangles[j][3]) >>]
    IN  SubSeq(all, 1, Len(triangles))

\* a plate 10 x 10 of height 1/100
Wafer == Box(V(-5, -5, 0), Vec(R(5), R(5), << 1, 100 >>))
\* two plates 10 x 10 x 4, one above the other, with nothing between z = -1 and z = 1
Stack == Box(V(-5, -5, -5), V(5, 5, -1)) \o Box(V(-5, -5, 1), V(5, 5, 5))
\* a column 2 x 2 x 10 around the one grid point (2, 2) of spacing 4
Column == Box(V(1, 1, -5), V(3, 3, 5))
\* the cube away from the origin
CubeMoved == Translate(Cube(FALSE), Vec(<< 1, 2 >>, << 1, 4 >>, R(1)))

\* what a file holds: a slab 10 wide, 17/4 high and 8 deep, and a needle
\* 3 x 40 x 3; y is up in a file
Slab == Box(Vec(R(-5), << -17, 8 >>, R(-4)), Vec(R(5), << 17, 8 >>, R(4)))
Needle == Box(Vec(<< -3, 2 >>, R(-20), << -3, 2 >>), Vec(<< 3, 2 >>, R(20), << 3, 2 >>))

\* slicer_v2.js:118-136 what the load callback makes of the object read from
\* the file: scaled to fit 10 units, turned a quarter about x (y becomes z),
\* centred on the z axis and lifted to stand on z = 0. The turn is taken as
\* exact; the files used are such that no grid point of a call made on them
\* lies on a face the turn moves and no layer of the slab touches its top, so
\* that what is placed does not depend on the rounding of the turn
Turned(triangles, scale) ==
    LET turn(v) == Vec(Mul(scale, v.x), Mul(scale, Sub(R(0), v.z)), Mul(scale, v.y))
        all == [j \in 1..Len(triangles) |->
                   << turn(triangles[j][1]), turn(triangles[j][2]),
                      turn(triangles[j][3]) >>]
    IN  SubSeq(all, 1, Len(triangles))

\* moved by minus the centre of the box, then up by half its height
Settled(turned, b) ==
    LET half == << 1, 2 >>
    IN  Translate(turned, Vec(Sub(R(0), Mul(half, Add(b.min.x, b.max.x))),
                              Sub(R(0), Mul(half, Add(b.min.y, b.max.y))),
                              Sub(R(0), b.min.z)))

Aligned(triangles) ==
    LET MaxDim(b) == Max2(Sub(b.max.x, b.min.x),
                          Max2(Sub(b.max.y, b.min.y), Sub(b.max.z, b.min.z)))
        turned == Only({ Only({ Turned(loaded, scale) :
                                scale \in {Div(R(10), MaxDim(Box3(loaded)))} }) :
                         loaded \in {triangles} })
    IN  Only({ Only({ Settled(t, b) : b \in {Box3(t)} }) : t \in {turned} })

\* meshes handed to generateGeometry as they are
GenMeshes ==
    [cube |-> Cube(FALSE), pyramid |-> Pyramid, octahedron |-> Octahedron,
     wafer |-> Wafer, stack |-> Stack, column |-> Column, cubeMoved |-> CubeMoved]

\* the files the page is given, and the objects the load callback makes of them
Files == {"slab", "needle"}
LoadedMeshes == [slab |-> Aligned(Slab), needle |-> Aligned(Needle)]

MeshOf(name) ==
    IF name \in DOMAIN LoadedMeshes THEN LoadedMeshes[name] ELSE GenMeshes[name]

Call(t, r, ov, oh, bf) ==
    [target |-> t, radius |-> r, overlapV |-> ov, overlapH |-> oh,
     baseFlattenPercent |-> bf]

GenTargets == {"cube", "pyramid"}
Radii == { Norm(k, 2) : k \in 2..MaxRadiusHalves }
\* overlaps whose factor 1 - overlap/100 a double holds exactly, so that the
\* steps of the code are the steps computed here
OverlapsV == { R(0), R(25), R(50) }
OverlapsH == { R(0), R(50) }
BaseFlattens == { R(-50), R(0), R(50), R(100), R(150) }

\* calls with overlaps outside [0, 100), on thin, split, pointed or moved meshes
SpecialCalls ==
    { Call("column", R(2), R(100), R(0), R(50)),
      Call("cube", R(2), R(-50), R(150), R(50)),
      Call("cube", R(2), R(0), R(100), R(50)),
      Call("wafer", R(2), R(0), R(0), R(50)),
      Call("stack", R(1), R(50), R(0), R(50)),
      Call("octahedron", R(2), R(0), R(0), R(50)),
      Call("cubeMoved", R(1), R(0), R(0), R(50)) }

GenCalls ==
    { Call(t, r, ov, oh, bf) : t \in GenTargets, r \in Radii, ov \in OverlapsV,
                               oh \in OverlapsH, bf \in BaseFlattens }
    \cup SpecialCalls

\* the arguments of a call, the locals before its first statement
Enter(call) ==
    /\ target = call.target
    /\ radius = call.radius
    /\ overlapV = call.overlapV
    /\ overlapH = call.overlapH
    /\ baseFlattenPercent = call.baseFlattenPercent
    /\ box = NoBox
    /\ layerStep = R(0)
    /\ horizontalStep = R(0)
    /\ thetaLength = R(0)
    /\ centerZ0 = R(0)
    /\ layerIndex = 0
    /\ centerZs = << >>
    /\ sampleZs = << >>
    /\ geometries = << >>
    /\ result = "none"
    /\ layerContours = << >>
    /\ layerPoints = << >>
    /\ spin = 0
    /\ gpc = "call"

\* slicer_v2.js:139 newSize.z of the object a file was made into
LoadedHeight(file) ==
    Only({ Sub(b.max.z, b.min.z) : b \in {Box3(LoadedMeshes[file])} })

\* main.js:78-90 and slicer_v2.js:116-313 the slicer after a file was chosen and
\* loaded
Loaded(height) == Holds(loadCallback(setupSlicer(setSliceTarget(Boot, Null)), height))

InitGen ==
    /\ IdleSlice
    /\ NoStitchInput
    /\ IdleApp
    /\ IdleContain
    /\ IdleGrid
    /\ \E call \in GenCalls : Enter(call)
    /\ bubbleSize = << 1, 2 >>
    /\ callsLeft = 0
    /\ runs = << >>
    /\ Holds(Boot)

\* GenCall taking the layer step from the bubble size the instance still holds
GenCall_StaleSize ==
    /\ gpc = "call"
    /\ bubbleSize' = radius
    /\ box' = Box3(MeshOf(target))
    /\ layerStep' = StepOf(bubbleSize, overlapV)
    /\ horizontalStep' = StepOf(radius, overlapH)
    /\ thetaLength' = ThetaOf(baseFlattenPercent)
    /\ centerZ0' = CenterZ0Of(box'.min.z, radius, thetaLength')
    /\ layerIndex' = 0
    /\ gpc' = "loop"
    /\ UNCHANGED << notGenVars, argVars, centerZs, sampleZs, geometries, layerContours,
                    layerPoints, result, spin, callsLeft, runs, slicerVars >>

\* bubble_generator.js:20-48
GenCall ==
    /\ gpc = "call"
    /\ bubbleSize' = radius
    /\ box' = Box3(MeshOf(target))
    /\ layerStep' = StepOf(radius, overlapV)
    /\ horizontalStep' = StepOf(radius, overlapH)
    /\ thetaLength' = ThetaOf(baseFlattenPercent)
    /\ centerZ0' = CenterZ0Of(box'.min.z, radius, thetaLength')
    /\ layerIndex' = 0
    /\ gpc' = "loop"
    /\ UNCHANGED << notGenVars, argVars, centerZs, sampleZs, geometries, layerContours,
                    layerPoints, result, spin, callsLeft, runs, slicerVars >>

\* bubble_generator.js:52-55 the layer would lie above the mesh: break
GenBreak ==
    /\ gpc = "loop"
    /\ Gt(Sub(CenterZOf(centerZ0, layerIndex, layerStep), radius), box.max.z)
    /\ gpc' = "merge"
    /\ UNCHANGED << notGenVars, argVars, setupVars, layerVars, result, spin, callsLeft,
                    runs, slicerVars >>

\* GenLayer leaving the loop at the first layer without a point
GenLayer_BreakOnEmpty ==
    /\ gpc = "loop"
    /\ \E centerZ \in {CenterZOf(centerZ0, layerIndex, layerStep)} :
       \E sampleZ \in {SampleZOf(box.min.z, box.max.z, centerZ)} :
       \E triangles \in {MeshOf(target)} :
       \E cs \in {getSliceContours_v2(triangles, sampleZ)} :
       \E ps \in {IF Len(cs) > 0
                  THEN getGridPointsInContours(cs, box, horizontalStep)
                  ELSE << >>} :
           /\ ~Gt(Sub(centerZ, radius), box.max.z)
           /\ centerZs' = Append(centerZs, centerZ)
           /\ sampleZs' = Append(sampleZs, sampleZ)
           /\ layerContours' = cs
           /\ layerPoints' = ps
           /\ geometries' = geometries
                  \o LayerSpheres(ps, 1, centerZ, radius, layerIndex, thetaLength)
           /\ IF Len(ps) = 0
              THEN gpc' = "merge" /\ UNCHANGED layerIndex
              ELSE /\ layerIndex' = layerIndex + 1
                   /\ gpc' = IF layerIndex + 1 > LayerCap THEN "merge" ELSE "loop"
    /\ UNCHANGED << notGenVars, argVars, setupVars, result, spin, callsLeft, runs,
                    slicerVars >>

\* bubble_generator.js:52-85 one layer; at line 64 the grid loops either end or,
\* with a spacing of 0, never do
GenLayer ==
    /\ gpc = "loop"
    /\ \E centerZ \in {CenterZOf(centerZ0, layerIndex, layerStep)} :
       \E sampleZ \in {SampleZOf(box.min.z, box.max.z, centerZ)} :
       \E triangles \in {MeshOf(target)} :
       \E cs \in {getSliceContours_v2(triangles, sampleZ)} :
       \E ps \in {IF Len(cs) > 0
                  THEN getGridPointsInContours(cs, box, horizontalStep)
                  ELSE << >>} :
           /\ ~Gt(Sub(centerZ, radius), box.max.z)
           /\ centerZs' = Append(centerZs, centerZ)
           /\ sampleZs' = Append(sampleZs, sampleZ)
           /\ layerContours' = cs
           /\ layerPoints' = ps
           /\ IF Len(cs) > 0 /\ GridDiverges(box, horizontalStep)
              THEN /\ gpc' = "grid"
                   /\ UNCHANGED << geometries, layerIndex >>
              ELSE /\ geometries' = geometries
                        \o LayerSpheres(ps, 1, centerZ, radius, layerIndex, thetaLength)
                   /\ layerIndex' = layerIndex + 1
                   /\ gpc' = IF layerIndex + 1 > LayerCap THEN "merge" ELSE "loop"
    /\ UNCHANGED << notGenVars, argVars, setupVars, result, spin, callsLeft, runs,
                    slicerVars >>

\* bubble_generator.js:112-122 one more iteration of a grid loop whose index is
\* -Infinity or Infinity; the iterations are counted modulo SpinWrap
GridIterate ==
    /\ gpc = "grid"
    /\ spin' = (spin + 1) % SpinWrap
    /\ UNCHANGED << notGenVars, argVars, setupVars, layerVars, result, gpc, callsLeft,
                    runs, slicerVars >>

\* ResultOf returning null whatever was placed
ResultOf_Null(spheres) == "null"

\* bubble_generator.js:88-94 the merged geometry, or null
ResultOf(spheres) == IF Len(spheres) > 0 THEN "geometry" ELSE "null"

\* bubble_generator.js:88-94
GenReturn ==
    /\ gpc = "merge"
    /\ result' = ResultOf(geometries)
    /\ gpc' = "return"
    /\ UNCHANGED << notGenVars, argVars, setupVars, layerVars, spin, callsLeft, runs,
                    slicerVars >>

\* geometry.boundingBox.max.z of the merged spheres: slicer_v2.js:526-528
TopOf(spheres) ==
    Greatest({ Add(spheres[i].z, spheres[i].radius) : i \in 1..Len(spheres) })

\* main.js:246-251 and, for a geometry, setTargetGeometry: slicer_v2.js:462-535
UpdateBubbleViewReturn ==
    /\ gpc = "return"
    /\ gpc' = "done"
    /\ runs' = Append(runs, [call |-> Call(target, radius, overlapV, overlapH,
                                           baseFlattenPercent),
                             result |-> result, placements |-> geometries])
    /\ IF result = "geometry"
       THEN \E S \in {setTargetGeometry(SlicerState, Geometry(TopOf(geometries)), FALSE)} :
                Install(S)
       ELSE UNCHANGED slicerVars
    /\ UNCHANGED << notGenVars, argVars, setupVars, layerVars, result, spin, callsLeft >>

\* bubble_generator.js:88-94 the value is back with the caller
CallReturn ==
    /\ gpc = "return"
    /\ gpc' = "done"
    /\ runs' = Append(runs, [call |-> Call(target, radius, overlapV, overlapH,
                                           baseFlattenPercent),
                             result |-> result, placements |-> geometries])
    /\ UNCHANGED << notGenVars, argVars, setupVars, layerVars, result, spin, callsLeft,
                    slicerVars >>

NextGen ==
    GenCall \/ GenBreak \/ GenLayer \/ GridIterate \/ GenReturn \/ CallReturn

SpecGen == InitGen /\ [][NextGen]_vars

(***************************************************************************)
(* generateGeometry called again and again on one BubbleGenerator          *)
(***************************************************************************)
MaxCalls == 3

RepeatCalls ==
    { Call("cube", R(2), R(0), R(0), R(50)),
      Call("cube", R(1), R(50), R(0), R(100)),
      Call("cube", R(2), R(-50), R(150), R(50)) }

InitRepeat ==
    /\ IdleSlice
    /\ NoStitchInput
    /\ IdleApp
    /\ IdleContain
    /\ IdleGrid
    /\ \E call \in RepeatCalls : Enter(call)
    /\ bubbleSize = << 1, 2 >>
    /\ callsLeft = MaxCalls - 1
    /\ runs = << >>
    /\ Holds(Boot)

\* bubble_generator.js:20-24 the next call of generateGeometry on the same
\* instance and the same mesh
CallAgain ==
    /\ gpc = "done"
    /\ callsLeft > 0
    /\ callsLeft' = callsLeft - 1
    /\ \E call \in { c \in RepeatCalls : c.target = target } :
           /\ radius' = call.radius
           /\ overlapV' = call.overlapV
           /\ overlapH' = call.overlapH
           /\ baseFlattenPercent' = call.baseFlattenPercent
    /\ box' = NoBox
    /\ layerStep' = R(0)
    /\ horizontalStep' = R(0)
    /\ thetaLength' = R(0)
    /\ centerZ0' = R(0)
    /\ layerIndex' = 0
    /\ centerZs' = << >>
    /\ sampleZs' = << >>
    /\ geometries' = << >>
    /\ result' = "none"
    /\ layerContours' = << >>
    /\ layerPoints' = << >>
    /\ gpc' = "call"
    /\ UNCHANGED << notGenVars, target, bubbleSize, spin, runs, slicerVars >>

NextRepeat ==
    GenCall \/ GenBreak \/ GenLayer \/ GenReturn \/ CallReturn \/ CallAgain

SpecRepeat == InitRepeat /\ [][NextRepeat]_vars

(***************************************************************************)
(* A model is loaded and bubble mode is switched on: updateBubbleView      *)
(* reads the three sliders and calls generateGeometry on the loaded mesh   *)
(***************************************************************************)
\* main.js:198 the size is kept within 0.01 .. 2.0
ViewSizes == { R(1), Norm(3, 2), R(2) }
\* main.js:209 the overlap within 0 .. 70; values whose factor 1 - overlap/100
\* a double holds exactly
ViewOverlaps == { R(0), R(25), R(50) }
\* main.js:220 the base flattening within 0 .. 100
ViewFlattens == { R(0), R(25), R(50), R(100) }

InitView ==
    /\ IdleSlice
    /\ NoStitchInput
    /\ IdleContain
    /\ IdleGrid
    /\ sizeSlider \in ViewSizes
    /\ overlapSlider \in ViewOverlaps
    /\ flattenSlider \in ViewFlattens
    /\ bubbleMode = FALSE
    /\ loads = {}
    /\ uploads = 1
    /\ lastCall = "load"
    /\ modelFile \in Files
    /\ target = "none"
    /\ radius = R(0)
    /\ overlapV = R(0)
    /\ overlapH = R(0)
    /\ baseFlattenPercent = R(0)
    /\ box = NoBox
    /\ layerStep = R(0)
    /\ horizontalStep = R(0)
    /\ thetaLength = R(0)
    /\ centerZ0 = R(0)
    /\ layerIndex = 0
    /\ centerZs = << >>
    /\ sampleZs = << >>
    /\ geometries = << >>
    /\ result = "none"
    /\ layerContours = << >>
    /\ layerPoints = << >>
    /\ spin = 0
    /\ gpc = "view"
    /\ bubbleSize = << 1, 2 >>
    /\ callsLeft = 0
    /\ runs = << >>
    /\ Loaded(LoadedHeight(modelFile))

\* main.js:169-183 the bubble mode checkbox is checked, and main.js:228-244
\* updateBubbleView up to the call: generateGeometry(mesh, radius, overlapV = 0,
\* overlapH = 0, baseFlattenPercent = 50) is given four arguments
\* (bubble_generator.js:20)
UpdateBubbleView ==
    /\ gpc = "view"
    /\ currentMesh # Null
    /\ originalMesh # Null
    /\ ~bubbleMode
    /\ bubbleMode' = TRUE
    /\ lastCall' = "updateBubbleView"
    /\ target' = modelFile
    /\ radius' = sizeSlider
    /\ overlapV' = overlapSlider
    /\ overlapH' = flattenSlider
    /\ baseFlattenPercent' = R(50)
    /\ gpc' = "call"
    /\ UNCHANGED << sliceVars, containVars, gridVars, stitchInput, sliderVars, loads,
                    uploads, modelFile, setupVars, layerVars, result, spin, callsLeft,
                    runs, slicerVars >>

NextView ==
    \/ UpdateBubbleView
    \/ GenCall
    \/ GenBreak
    \/ GenLayer
    \/ GridIterate
    \/ GenReturn
    \/ UpdateBubbleViewReturn

SpecView == InitView /\ [][NextView]_vars

(***************************************************************************)
(* The page: files are chosen, loads complete in any order or fail, the    *)
(* slice slider is moved, the bubble sliders are moved and their fields    *)
(* typed into, bubble mode is toggled, Refresh is clicked.  Every handler  *)
(* runs to its end before the next event is taken.                         *)
(***************************************************************************)
MaxUploads == 2
MaxObjects == 7

\* bubble_generator.js:51-86 the loop from layer i on, with what was placed
\* below it: the placements when the loop ends, or that it does not end
RECURSIVE Layers(_, _, _, _, _, _, _, _, _)
Layers(triangles, b, r, vStep, hStep, theta, z0, i, placed) ==
    Only({ IF Gt(Sub(centerZ, r), b.max.z)
           THEN [returns |-> TRUE, placements |-> placed]
           ELSE Only({
               IF Len(cs) > 0 /\ GridDiverges(b, hStep)
               THEN [returns |-> FALSE, placements |-> placed]
               ELSE Only({
                   IF i + 1 > LayerCap
                   THEN [returns |-> TRUE, placements |-> more]
                   ELSE Layers(triangles, b, r, vStep, hStep, theta, z0, i + 1, more) :
                   more \in {placed \o
                             (IF Len(cs) > 0
                              THEN LayerSpheres(getGridPointsInContours(cs, b, hStep),
                                                1, centerZ, r, i, theta)
                              ELSE << >>)} }) :
               cs \in {getSliceContours_v2(triangles,
                                           SampleZOf(b.min.z, b.max.z, centerZ))} }) :
           centerZ \in {CenterZOf(z0, i, vStep)} })

\* bubble_generator.js:20-94 one call from its first statement to its last
generateGeometry(triangles, r, ov, oh, bf) ==
    Only({ Only({ Layers(t, b, r, StepOf(r, ov), StepOf(r, oh), ThetaOf(bf),
                         CenterZ0Of(b.min.z, r, ThetaOf(bf)), 0, << >>) :
                  b \in {Box3(t)} }) : t \in {triangles} })

\* the values the three sliders are moved to; and what is typed into the
\* three fields. Typing 90 brings the overlap to 70, and its factor 1 - 70/100
\* is taken as 3/10: the heights the code computes with the nearest double
\* differ from the ones here in their last digit, the placements do not
PageSizes == { R(1), Norm(3, 2), R(2) }
PageOverlaps == { R(0), R(25) }
PageFlattens == { R(50), R(100) }
TypedSizes == { R(1), R(3) }
TypedOverlaps == { R(-5), R(25), R(90) }
TypedFlattens == { R(50), R(120) }

\* main.js:198 parseFloat(value) || 0.01 kept within 0.01 .. 2.0
SizeTyped(v) ==
    Min2(Max2(IF isNaN(v) \/ v = R(0) THEN << 1, 100 >> ELSE v, << 1, 100 >>), R(2))
\* main.js:209 parseInt(value) || 0 kept within 0 .. 70
OverlapTyped(v) == Min2(Max2(IF isNaN(v) THEN R(0) ELSE v, R(0)), R(70))
\* main.js:220 parseInt(value) || 0 kept within 0 .. 100
FlattenTyped(v) == Min2(Max2(IF isNaN(v) THEN R(0) ELSE v, R(0)), R(100))

\* main.js:244 generateGeometry(originalMesh, radius, overlapPercent,
\* baseFlattenPercent) on a loaded file: whether the call returns, and the
\* geometry or null it returns
Outcome(file, size, overlap, flatten) ==
    Only({ [file |-> file, size |-> size, overlap |-> overlap, flatten |-> flatten,
            returns |-> run.returns,
            bubbleGeo |-> IF run.returns /\ ResultOf(run.placements) = "geometry"
                          THEN Geometry(TopOf(run.placements))
                          ELSE NullGeometry] :
           run \in {generateGeometry(LoadedMeshes[file], size, overlap, flatten, R(50))} })

\* the same for every file and every setting the sliders are brought to, by
\* moving them or by typing
PageSettings ==
    Files \X (PageSizes \cup { SizeTyped(v) : v \in TypedSizes })
          \X (PageOverlaps \cup { OverlapTyped(v) : v \in TypedOverlaps })
          \X (PageFlattens \cup { FlattenTyped(v) : v \in TypedFlattens })
Generated == { Outcome(c[1], c[2], c[3], c[4]) : c \in PageSettings }

GeneratedFor(file, size, overlap, flatten) ==
    IF << file, size, overlap, flatten >> \in PageSettings
    THEN Only({ g \in Generated : /\ g.file = file /\ g.size = size
                                  /\ g.overlap = overlap /\ g.flatten = flatten })
    ELSE Outcome(file, size, overlap, flatten)

\* what generateGeometry returns (bubble_generator.js:88-94): null, or the merged
\* spheres with their top
GeneratedGeometries == { g.bubbleGeo : g \in { g \in Generated : g.returns } }

\* the objects created stay within the bound
Room(S) == S.nextId <= MaxObjects + 1

notAppVars == << sliceVars, containVars, gridVars, stitchInput, argVars, box, layerStep,
                 horizontalStep, thetaLength, centerZ0, layerVars, result, callsLeft,
                 runs >>

InitApp ==
    /\ IdleSlice
    /\ NoStitchInput
    /\ IdleApp
    /\ IdleContain
    /\ IdleGen
    /\ IdleGrid

\* main.js:228-253, the call of generateGeometry replaced by what it returned
updateBubbleView(S, checked, bubbleGeo) ==
    IF S.originalMesh = Null THEN S
    ELSE IF checked /\ bubbleGeo.ok THEN setTargetGeometry(S, bubbleGeo, FALSE)
    ELSE S

\* main.js:228-253 updateBubbleView with the box checked or not: when it calls
\* generateGeometry, bubble_generator.js:22 sets bubbleSize; a call that does
\* not return leaves the page inside the grid loop
UpdateView(checked) ==
    IF originalMesh = Null \/ ~checked
    THEN UNCHANGED << slicerVars, bubbleSize, gpc >>
    ELSE \E g \in {GeneratedFor(modelFile, sizeSlider, overlapSlider, flattenSlider)} :
             /\ bubbleSize' = sizeSlider
             /\ IF g.returns
                THEN /\ \E S \in {updateBubbleView(SlicerState, TRUE, g.bubbleGeo)} :
                            Room(S) /\ Install(S)
                     /\ UNCHANGED gpc
                ELSE /\ gpc' = "grid"
                     /\ UNCHANGED slicerVars

\* main.js:78-90 a file is chosen; slicer_v2.js:81-116 the load is started
FileChange ==
    /\ gpc = "idle"
    /\ uploads < MaxUploads
    /\ uploads' = uploads + 1
    /\ \E f \in Files :
           loads' = loads \cup {[file |-> uploads + 1, holds |-> f]}
    /\ \E S \in {setupSlicer(setSliceTarget(SlicerState, Null))} : Install(S)
    /\ lastCall' = "setupSlicer"
    /\ UNCHANGED << notAppVars, sliderVars, bubbleSize, gpc, spin, bubbleMode, modelFile >>

\* slicer_v2.js:116-313 a load completes
LoadDone ==
    /\ gpc = "idle"
    /\ \E l \in loads :
       \E S \in {loadCallback(SlicerState, LoadedHeight(l.holds))} :
           /\ Room(S)
           /\ loads' = loads \ {l}
           /\ modelFile' = l.holds
           /\ Install(S)
           /\ lastCall' = "load"
           /\ UNCHANGED << notAppVars, sliderVars, bubbleSize, gpc, spin, bubbleMode,
                           uploads >>

\* slicer_v2.js:313-315 a load fails
LoadError ==
    /\ gpc = "idle"
    /\ \E l \in loads :
           /\ loads' = loads \ {l}
           /\ lastCall' = "loadError"
           /\ UNCHANGED << notAppVars, sliderVars, bubbleSize, gpc, spin, bubbleMode,
                           uploads, modelFile, slicerVars >>

\* the slice slider is moved
SliderInput ==
    /\ gpc = "idle"
    /\ \E S \in {onInput(SlicerState, "user")} : Install(S)
    /\ lastCall' = "input"
    /\ UNCHANGED << notAppVars, sliderVars, bubbleSize, gpc, spin, bubbleMode, uploads,
                    loads, modelFile >>

\* main.js:148-156 with a layer count above 0
ApplySettings ==
    /\ gpc = "idle"
    /\ \E S \in {updateSliceSettings(SlicerState)} : Install(S)
    /\ lastCall' = "updateSliceSettings"
    /\ UNCHANGED << notAppVars, sliderVars, bubbleSize, gpc, spin, bubbleMode, uploads,
                    loads, modelFile >>

\* main.js:192-194, 203-205, 214-216 one of the three sliders is moved: the
\* listener copies the value into the field beside it
BubbleSliderInput ==
    /\ gpc = "idle"
    /\ \/ \E v \in PageSizes : sizeSlider' = v /\ UNCHANGED << overlapSlider, flattenSlider >>
       \/ \E v \in PageOverlaps :
              overlapSlider' = v /\ UNCHANGED << sizeSlider, flattenSlider >>
       \/ \E v \in PageFlattens :
              flattenSlider' = v /\ UNCHANGED << sizeSlider, overlapSlider >>
    /\ lastCall' = "none"
    /\ UNCHANGED << notAppVars, bubbleSize, gpc, spin, bubbleMode, uploads, loads,
                    modelFile, slicerVars >>

\* main.js:197-200, 208-211, 219-222 a value is typed into one of the three
\* fields: the listener sets the slider to the value brought within its range
BubbleFieldInput ==
    /\ gpc = "idle"
    /\ \/ \E v \in TypedSizes :
              sizeSlider' = SizeTyped(v) /\ UNCHANGED << overlapSlider, flattenSlider >>
       \/ \E v \in TypedOverlaps :
              overlapSlider' = OverlapTyped(v) /\ UNCHANGED << sizeSlider, flattenSlider >>
       \/ \E v \in TypedFlattens :
              flattenSlider' = FlattenTyped(v) /\ UNCHANGED << sizeSlider, overlapSlider >>
    /\ lastCall' = "none"
    /\ UNCHANGED << notAppVars, bubbleSize, gpc, spin, bubbleMode, uploads, loads,
                    modelFile, slicerVars >>

\* main.js:169-189 the bubble mode checkbox is clicked
ToggleChange ==
    /\ gpc = "idle"
    /\ IF currentMesh = Null
       THEN /\ bubbleMode' = FALSE
            /\ lastCall' = "alert"
            /\ UNCHANGED << slicerVars, bubbleSize, gpc >>
       ELSE IF ~bubbleMode
       THEN /\ bubbleMode' = TRUE
            /\ lastCall' = "updateBubbleView"
            /\ UpdateView(TRUE)
       ELSE /\ bubbleMode' = FALSE
            /\ lastCall' = "restoreOriginalGeometry"
            /\ \E S \in {restoreOriginalGeometry(SlicerState)} : Room(S) /\ Install(S)
            /\ UNCHANGED << bubbleSize, gpc >>
    /\ UNCHANGED << notAppVars, sliderVars, spin, uploads, loads, modelFile >>

\* main.js:224-226 Refresh is clicked
Regenerate ==
    /\ gpc = "idle"
    /\ UpdateView(bubbleMode)
    /\ lastCall' = "updateBubbleView"
    /\ UNCHANGED << notAppVars, sliderVars, spin, bubbleMode, uploads, loads, modelFile >>

\* bubble_generator.js:112-122 the page inside a grid loop that cannot end: one
\* more iteration, counted modulo SpinWrap; no event is taken again
PageSpins ==
    /\ gpc = "grid"
    /\ spin' = (spin + 1) % SpinWrap
    /\ UNCHANGED << notAppVars, bubbleSize, gpc, appVars, slicerVars >>

NextApp ==
    \/ FileChange
    \/ LoadDone
    \/ LoadError
    \/ SliderInput
    \/ ApplySettings
    \/ BubbleSliderInput
    \/ BubbleFieldInput
    \/ ToggleChange
    \/ Regenerate
    \/ PageSpins

SpecApp == InitApp /\ [][NextApp]_vars

(***************************************************************************)
(* The slicer called directly: its exported functions setupSlicer,         *)
(* updateSliceSettings, setSliceTarget, setTargetGeometry and              *)
(* restoreOriginalGeometry in any order, with the loads completing or      *)
(* failing and the slice slider moved in between                           *)
(***************************************************************************)
\* slicer_v2.js:81-116 called on its own with the url of the slab: the load is
\* started
SetupSlicer ==
    /\ uploads < MaxUploads
    /\ uploads' = uploads + 1
    /\ loads' = loads \cup {[file |-> uploads + 1, holds |-> "slab"]}
    /\ \E S \in {setupSlicer(SlicerState)} : Install(S)
    /\ lastCall' = "setupSlicer"
    /\ UNCHANGED << notAppVars, sliderVars, bubbleSize, gpc, spin, bubbleMode, modelFile >>

\* slicer_v2.js:537-549 called with null or with one of the meshes shown: the
\* solid one, the original or the ghost
SetSliceTarget ==
    /\ \E sliced \in {Null, currentMesh, originalMesh, ghostMesh} :
       \E S \in {setSliceTarget(SlicerState, sliced)} : Install(S)
    /\ lastCall' = "setSliceTarget"
    /\ UNCHANGED << notAppVars, sliderVars, bubbleSize, gpc, spin, bubbleMode, uploads,
                    loads, modelFile >>

\* slicer_v2.js:371-386 called with any layer count
UpdateSliceSettings ==
    /\ \E S \in {updateSliceSettings(SlicerState)} : Install(S)
    /\ lastCall' = "updateSliceSettings"
    /\ UNCHANGED << notAppVars, sliderVars, bubbleSize, gpc, spin, bubbleMode, uploads,
                    loads, modelFile >>

\* what generateGeometry returned for the sliders as the page starts with them
\* and for the size slider at 2: null for the needle, a geometry for the slab
SlicerGeometries ==
    { g.bubbleGeo : g \in { g \in Generated : /\ g.size \in {R(1), R(2)}
                                              /\ g.overlap = R(0)
                                              /\ g.flatten = R(50) } }

\* slicer_v2.js:462-535 called with null or a geometry generateGeometry returned
\* and either setting of the caps
SetTargetGeometry ==
    /\ \E geometry \in SlicerGeometries, renderCaps \in BOOLEAN :
       \E S \in {setTargetGeometry(SlicerState, geometry, renderCaps)} :
           Room(S) /\ Install(S)
    /\ lastCall' = "setTargetGeometry"
    /\ UNCHANGED << notAppVars, sliderVars, bubbleSize, gpc, spin, bubbleMode, uploads,
                    loads, modelFile >>

\* slicer_v2.js:402-453
RestoreOriginalGeometry ==
    /\ \E S \in {restoreOriginalGeometry(SlicerState)} : Room(S) /\ Install(S)
    /\ lastCall' = "restoreOriginalGeometry"
    /\ UNCHANGED << notAppVars, sliderVars, bubbleSize, gpc, spin, bubbleMode, uploads,
                    loads, modelFile >>

NextSlicer ==
    \/ SetupSlicer
    \/ LoadDone
    \/ LoadError
    \/ SliderInput
    \/ UpdateSliceSettings
    \/ SetSliceTarget
    \/ SetTargetGeometry
    \/ RestoreOriginalGeometry

SpecSlicer == InitApp /\ [][NextSlicer]_vars

(***************************************************************************)
(* getGridPointsInContours, one loop iteration at a time                   *)
(***************************************************************************)
MaxSpacing == 3
IterWrap == 2

\* the outline of a rectangle as the stitcher returns it: closed, points [x, y]
Outline(lo, hi) ==
    << << << lo.x, lo.y >>, << hi.x, lo.y >>, << hi.x, hi.y >>, << lo.x, hi.y >>,
          << lo.x, lo.y >> >> >>

BoxOf(lo, hi) == [min |-> lo, max |-> hi]

\* the cube's box with its section; the same moved; a box with a corner at the
\* origin; a box smaller than the contour it is given
GridCases ==
    { [box |-> BoxOf(V(-5, -5, -5), V(5, 5, 5)),
       contours |-> Outline(V(-5, -5, 0), V(5, 5, 0))],
      [box |-> Box3(CubeMoved),
       contours |-> Outline(Box3(CubeMoved).min, Box3(CubeMoved).max)],
      [box |-> BoxOf(V(0, 0, 0), V(4, 4, 4)),
       contours |-> Outline(V(0, 0, 0), V(4, 4, 0))],
      [box |-> BoxOf(V(-2, -2, -2), V(2, 2, 2)),
       contours |-> Outline(V(-5, -5, 0), V(5, 5, 0))] }

Spacings == { R(k) : k \in {-2, 0} \cup 1..MaxSpacing } \cup { << 3, 2 >> }

InitGrid ==
    /\ IdleSlice
    /\ NoStitchInput
    /\ IdleApp
    /\ IdleContain
    /\ IdleGen
    /\ \E c \in GridCases : gBox = c.box /\ gContours = c.contours
    /\ gridSpacing \in Spacings
    /\ gridPoints = << >>
    /\ gridN = R(0)
    /\ gridEndN = R(0)
    /\ gridM = R(0)
    /\ gridStartM = R(0)
    /\ gridEndM = R(0)
    /\ gridX = R(0)
    /\ iterations = 0
    /\ gridpc = "call"

\* bubble_generator.js:103-112 up to let n = startN
GridCall ==
    /\ gridpc = "call"
    /\ gridN' = GridStart(gBox.min.x, gridSpacing)
    /\ gridEndN' = GridEnd(gBox.max.x, gridSpacing)
    /\ gridStartM' = GridStart(gBox.min.y, gridSpacing)
    /\ gridEndM' = GridEnd(gBox.max.y, gridSpacing)
    /\ gridpc' = "outer"
    /\ UNCHANGED << notGridVars, gBox, gContours, gridSpacing, gridPoints, gridM, gridX,
                    iterations >>

\* bubble_generator.js:112-114 the test n <= endN, then x and let m = startM
GridOuter ==
    /\ gridpc = "outer"
    /\ IF JSLe(gridN, gridEndN)
       THEN /\ gridX' = GridCoord(gridN, gridSpacing)
            /\ gridM' = gridStartM
            /\ gridpc' = "inner"
       ELSE /\ gridpc' = "return"
            /\ UNCHANGED << gridX, gridM >>
    /\ UNCHANGED << notGridVars, gBox, gContours, gridSpacing, gridPoints, gridN, gridEndN,
                    gridStartM, gridEndM, iterations >>

\* bubble_generator.js:114-121 the test m <= endM and one pass of the inner
\* body with m++, or the end of the inner loop with n++
GridInner ==
    /\ gridpc = "inner"
    /\ iterations' = (iterations + 1) % IterWrap
    /\ IF JSLe(gridM, gridEndM)
       THEN /\ \E y \in {GridCoord(gridM, gridSpacing)} :
                  gridPoints' = IF isPointInContours(gridX, y, gContours)
                                THEN Append(gridPoints, [x |-> gridX, y |-> y])
                                ELSE gridPoints
            /\ gridM' = JSInc(gridM)
            /\ UNCHANGED << gridN, gridpc >>
       ELSE /\ gridN' = JSInc(gridN)
            /\ gridpc' = "outer"
            /\ UNCHANGED << gridPoints, gridM >>
    /\ UNCHANGED << notGridVars, gBox, gContours, gridSpacing, gridEndN, gridStartM,
                    gridEndM, gridX >>

NextGrid == GridCall \/ GridOuter \/ GridInner

SpecGrid == InitGrid /\ [][NextGrid]_vars

\* a step of the call, seen on the position in the code and the iteration count:
\* every step of NextGrid is one, and one is possible exactly when NextGrid is
GridProgress ==
    /\ gridpc \in {"call", "outer", "inner"}
    /\ gridpc' \in {"outer", "inner", "return"}
    /\ iterations' \in 0..(IterWrap - 1)

\* a call that has started keeps running: JavaScript runs it to completion
SpecGridFair == SpecGrid /\ WF_<< gridpc, iterations >>(GridProgress)

(***************************************************************************)
(* Properties of slicing                                                   *)
(***************************************************************************)
ConvexObjects == {"cube", "cubeFlip", "octahedron", "pyramid", "tetrahedron"}
CubeObjects == {"cube", "cubeFlip"}
FrameObjects == {"frame", "frameFlat"}

StrictlyInside == Lt(MinZ(mesh), z) /\ Lt(z, MaxZ(mesh))
OutsideRange == Lt(z, MinZ(mesh)) \/ Gt(z, MaxZ(mesh))
ThroughVertex == z \in ZValues(mesh)

\* the vertex key of a 2D point of a loop
KeyOf(p) == << toFixed(p[1], precision), toFixed(p[2], precision) >>
KeysOf(loop) == { KeyOf(loop[k]) : k \in 1..Len(loop) }
PointsOf(loop) == { loop[k] : k \in 1..Len(loop) }

\* C1: a closed convex mesh sliced strictly between its minZ and maxZ, also
\* at a height through its vertices, yields at least one loop, a chain of at
\* least 3 points.
C1_ConvexInteriorSliceHasLoop ==
    (pc = "done" /\ object \in ConvexObjects /\ StrictlyInside)
        => (Len(loops) >= 1 /\ \A k \in 1..Len(loops) : Len(loops[k]) >= 3)

C1_Witness ==
    /\ pc = "done" /\ object \in ConvexObjects /\ StrictlyInside
    /\ ThroughVertex /\ Len(loops) >= 1

\* C2: at a height below minZ or above maxZ no triangle pushes a point or
\* returns a segment, no interpolation (division) is evaluated, and the loop
\* list returned is empty.
C2_OutsideRangeIsEmpty ==
    OutsideRange =>
        /\ pushes = 0 /\ divisions = 0
        /\ triangleSegments = << >> /\ segments = << >>
        /\ loops = << >>
        /\ pc \in {"triangles", "done"}

C2_Witness ==
    pc = "done" /\ OutsideRange /\ triIndex = Len(mesh) /\ loops = << >>

\* C3: for a closed manifold mesh sliced strictly inside its Z range, the
\* first and the last point of every returned loop have the same vertex key,
\* in every order of the triangles.
C3_LoopsClosed ==
    (pc = "done" /\ StrictlyInside) =>
        \A k \in 1..Len(loops) : KeyOf(loops[k][1]) = KeyOf(loops[k][Len(loops[k])])

C3_Witness ==
    pc = "done" /\ StrictlyInside /\ ThroughVertex /\ Len(loops) >= 1

\* the triangle handled last and how the plane meets it
LastTriangle == mesh[triIndex]
Above(t) == { k \in 1..3 : Gt(t[k].z, z) }
Below(t) == { k \in 1..3 : Lt(t[k].z, z) }
OnPlane(t) == { k \in 1..3 : t[k].z = z }
\* twice the area vector of the triangle is not zero
NonDegenerate(t) ==
    LET ux == Sub(t[2].x, t[1].x)
        uy == Sub(t[2].y, t[1].y)
        uz == Sub(t[2].z, t[1].z)
        wx == Sub(t[3].x, t[1].x)
        wy == Sub(t[3].y, t[1].y)
        wz == Sub(t[3].z, t[1].z)
    IN  \/ Sub(Mul(uy, wz), Mul(uz, wy)) # R(0)
        \/ Sub(Mul(uz, wx), Mul(ux, wz)) # R(0)
        \/ Sub(Mul(ux, wy), Mul(uy, wx)) # R(0)

\* C4: a non-degenerate triangle with vertices strictly on both sides of the
\* plane returns exactly one segment with two distinct endpoints; a triangle
\* entirely above, entirely below, or touching the plane at one vertex only
\* (the other two both above or both below) returns no segment.
C4_TriangleSegmentGuarantee ==
    (pc = "triangles" /\ triIndex >= 1) =>
        LET t == LastTriangle
        IN  /\ (NonDegenerate(t) /\ Above(t) # {} /\ Below(t) # {})
                => /\ Len(triangleSegments) = 1
                   /\ triangleSegments[1][1] # triangleSegments[1][2]
            /\ (\/ Cardinality(Above(t)) = 3
                \/ Cardinality(Below(t)) = 3
                \/ Cardinality(OnPlane(t)) = 1 /\ Cardinality(Above(t)) = 2
                \/ Cardinality(OnPlane(t)) = 1 /\ Cardinality(Below(t)) = 2)
                => triangleSegments = << >>

\* what does hold of C4: as C4 but for the triangle touching the plane at one
\* vertex with the other two below, which returns the degenerate segment
\* from that vertex to itself
C4_AsBuilt ==
    (pc = "triangles" /\ triIndex >= 1) =>
        LET t == LastTriangle
        IN  /\ (NonDegenerate(t) /\ Above(t) # {} /\ Below(t) # {})
                => /\ Len(triangleSegments) = 1
                   /\ triangleSegments[1][1] # triangleSegments[1][2]
            /\ (\/ Cardinality(Above(t)) = 3
                \/ Cardinality(Below(t)) = 3
                \/ Cardinality(OnPlane(t)) = 1 /\ Cardinality(Above(t)) = 2)
                => triangleSegments = << >>
            /\ (Cardinality(OnPlane(t)) = 1 /\ Cardinality(Below(t)) = 2)
                => \E k \in OnPlane(t) : triangleSegments = << << t[k], t[k] >> >>

\* C5 as claimed: the side-10 cube sliced at z0 = 0 returns exactly one loop,
\* and that loop consists of 4 points.
C5_CubeSliceFourPoints ==
    (pc = "done" /\ object \in CubeObjects /\ z = R(0))
        => (Len(loops) = 1 /\ Len(loops[1]) = 4)

CubeCorners == { << R(a), R(b) >> : a \in {-5, 5}, b \in {-5, 5} }
CubeMidpoints == { << R(5), R(0) >>, << R(-5), R(0) >>, << R(0), R(5) >>, << R(0), R(-5) >> }

\* C5 as amended: the side-10 cube sliced at z0 = 0 returns exactly one loop;
\* it is closed and has 9 points: the 4 corners of the 10x10 square and the 4
\* midpoints of its sides (where each side face's diagonal crosses the
\* plane), the first point repeated at the end.
C5_CubeSliceSquare ==
    (pc = "done" /\ object \in CubeObjects /\ z = R(0)) =>
        /\ Len(loops) = 1
        /\ Len(loops[1]) = 9
        /\ loops[1][1] = loops[1][9]
        /\ PointsOf(loops[1]) = CubeCorners \cup CubeMidpoints

C5_Witness ==
    pc = "done" /\ object \in CubeObjects /\ z = R(0) /\ Len(loops) = 1

\* the plane passes through the hole of the frame
CrossesHole == Lt(R(-1), z) /\ Lt(z, R(1))

\* C7: a closed genus-1 mesh sliced at a height crossing both tube sections
\* returns exactly two loops, which share no vertex key and no segment (every
\* segment is used by exactly one of them).
C7_TorusTwoDisjointLoops ==
    (pc = "done" /\ object \in FrameObjects /\ CrossesHole) =>
        /\ Len(loops) = 2
        /\ KeysOf(loops[1]) \cap KeysOf(loops[2]) = {}
        /\ (Len(loops[1]) - 1) + (Len(loops[2]) - 1) = Len(segments)

C7_Witness ==
    pc = "done" /\ object \in FrameObjects /\ CrossesHole /\ Len(loops) = 2

IsLoop(chain) == Len(chain) >= 3

\* C8: every loop returned has at least 3 points, and the loops are exactly
\* the chains of at least 3 points: a chain that ends with fewer is dropped.
C8_LoopsHaveThreePoints ==
    /\ \A k \in 1..Len(loops) : Len(loops[k]) >= 3
    /\ loops = SelectSeq(chains, IsLoop)

C8_Witness ==
    /\ pc = "done" /\ Len(loops) >= 1
    /\ \E k \in 1..Len(chains) : Len(chains[k]) < 3

(***************************************************************************)
(* Properties of isPointInContours                                         *)
(***************************************************************************)
AbsR(a) == << Abs(a[1]), a[2] >>

\* the query point lies strictly inside the square of half side h
InSquare(h) == Lt(AbsR(query[1]), R(h)) /\ Lt(AbsR(query[2]), R(h))
\* the query point lies on the boundary of the square of half side h
OnSquare(h) ==
    /\ Le(AbsR(query[1]), R(h)) /\ Le(AbsR(query[2]), R(h))
    /\ (AbsR(query[1]) = R(h) \/ AbsR(query[2]) = R(h))

OnSomeBoundary == \E k \in 1..Len(shape.halves) : OnSquare(shape.halves[k])
Enclosing == { k \in 1..Len(shape.halves) : InSquare(shape.halves[k]) }

\* the ray crossings of one loop and of all loops
CrossingsOf(polygon) ==
    Cardinality({ i \in 1..Len(polygon) :
        Intersect(query[1], query[2], polygon[i],
                  polygon[IF i = 1 THEN Len(polygon) ELSE i - 1]) })

RECURSIVE TotalCrossings(_)
TotalCrossings(k) ==
    IF k > Len(contours) THEN 0 ELSE CrossingsOf(contours[k]) + TotalCrossings(k + 1)

\* C6: with the loops of the side-10 cube sliced at z0 = 0, every point
\* strictly inside the square, such as (0,0), is classified inside and every
\* point strictly outside, such as (6,6), is classified outside.
C6_CubeSliceContainment ==
    (cpc = "return" /\ shape.kind = "cube" /\ ~OnSomeBoundary)
        => (inside <=> InSquare(CubeSide \div 2))

C6_Witness ==
    /\ cpc = "return" /\ shape.kind = "cube"
    /\ query = << R(0), R(0) >> /\ inside

\* C9: isPointInContours returns true exactly when the ray crossings summed
\* over all loops are odd: a point off the boundaries is inside exactly when
\* an odd number of the nested loops enclose it, whatever their winding and
\* their order in the list.
C9_EvenOddAcrossLoops ==
    (cpc = "return" /\ shape.kind = "nested") =>
        /\ inside <=> (TotalCrossings(1) % 2 = 1)
        /\ ~OnSomeBoundary => (inside <=> (Cardinality(Enclosing) % 2 = 1))

C9_Witness ==
    /\ cpc = "return" /\ shape.kind = "nested"
    /\ Len(contours) = 3 /\ Cardinality(Enclosing) = 3 /\ inside
    \* the first loop is clockwise, the second counter-clockwise and inside it
    /\ Gt(contours[1][2][2], R(0)) /\ Lt(contours[2][2][2], R(0))
    /\ shape.halves[1] > shape.halves[2]

\* the vertices of the triangle that lie on the plane
OnPlaneVertices(t) == { t[k] : k \in OnPlane(t) }

\* C20: a triangle with exactly one edge on the plane (two vertices at z0) and
\* its third vertex off the plane, above or below, returns one segment that
\* joins the two on-plane vertices.
C20_EdgeOnPlaneGivesSegment ==
    (pc = "triangles" /\ triIndex >= 1) =>
        LET t == LastTriangle
        IN  (Cardinality(OnPlane(t)) = 2 /\ OnPlane(t) \cup Above(t) \cup Below(t) = 1..3)
                => /\ Len(triangleSegments) = 1
                   /\ { triangleSegments[1][1], triangleSegments[1][2] }
                          = OnPlaneVertices(t)

\* what does hold of C20: with the third vertex below the plane the segment
\* joins the two on-plane vertices, with the third vertex above the plane only
\* one point is found and no segment is returned
C20_AsBuilt ==
    (pc = "triangles" /\ triIndex >= 1) =>
        LET t == LastTriangle
        IN  /\ (Cardinality(OnPlane(t)) = 2 /\ Cardinality(Below(t)) = 1)
                => /\ Len(triangleSegments) = 1
                   /\ { triangleSegments[1][1], triangleSegments[1][2] }
                          = OnPlaneVertices(t)
            /\ (Cardinality(OnPlane(t)) = 2 /\ Cardinality(Above(t)) = 1)
                => triangleSegments = << >>

\* the segments of chain c as a set, and those marked visited when chain c has
\* marked its first i segments
IdsOf(c) == { chainIds[c][j] : j \in 1..Len(chainIds[c]) }
MarkedBefore(c, i) ==
    UNION { IdsOf(d) : d \in 1..(c - 1) } \cup { chainIds[c][j] : j \in 1..i }

Point2(v) == << v.x, v.y >>

\* C23: every segment is marked visited exactly once and lies in at most one
\* chain; a chain starts with the two points of its start segment and is
\* extended only from its last point, each time by the first neighbor in the
\* current key's adjacency list whose segment is not yet visited; it ends when
\* no unvisited segment is incident to the current key; the traversal ends with
\* every segment visited, after no more marking steps than there are segments.
C23_EachSegmentVisitedOnce ==
    /\ Len(chains) = Len(chainIds)
    /\ visitedSegments = UNION { IdsOf(c) : c \in 1..Len(chainIds) }
    /\ \A c, d \in 1..Len(chainIds) :
           \A i \in 1..Len(chainIds[c]), j \in 1..Len(chainIds[d]) :
               chainIds[c][i] = chainIds[d][j] => (c = d /\ i = j)
    /\ \A c \in 1..Len(chainIds) :
           LET ids == chainIds[c]
               ch == chains[c]
           IN  /\ Len(ch) = Len(ids) + 1
               /\ ch[1] = Point2(segments[ids[1]][1])
               /\ ch[2] = Point2(segments[ids[1]][2])
               /\ \A i \in 1..(Len(ids) - 1) :
                      LET nb == adj[KeyOf(ch[i + 1])]
                      IN  \E k \in 1..Len(nb) :
                              /\ nb[k].id = ids[i + 1]
                              /\ Point2(nb[k].point) = ch[i + 2]
                              /\ \A m \in 1..(k - 1) : nb[m].id \in MarkedBefore(c, i)
               /\ \A k \in 1..Len(adj[KeyOf(ch[Len(ch)])]) :
                      adj[KeyOf(ch[Len(ch)])][k].id \in MarkedBefore(c, Len(ids))
    /\ segIndex <= Len(segments) /\ startSegId <= Len(segments)
    /\ Cardinality(visitedSegments) <= Len(segments)
    /\ pc = "build" => (segIndex < Len(segments) /\ startSegId = 0)
    /\ pc = "traverse" => (segIndex = Len(segments) /\ startSegId < Len(segments))
    /\ (pc = "done" /\ Len(segments) > 0) =>
           (startSegId = Len(segments) /\ visitedSegments = 1..Len(segments))

\* a slice through a vertex: a key with four adjacency entries, a chain that took
\* a segment out of list order, a chain that was dropped
C23_Witness ==
    /\ pc = "done" /\ Len(segments) >= 4
    /\ visitedSegments = 1..Len(segments)
    /\ Len(chainIds) >= 2
    /\ \E key \in DOMAIN adj : Len(adj[key]) >= 4
    /\ \E c \in 1..Len(chainIds) : Len(chainIds[c]) >= 3 /\ chainIds[c][2] > chainIds[c][3]
    /\ \E c \in 1..Len(chainIds) : Len(chains[c]) = 2

\* the segments of the returned loops, named by their index in the base list
EmittedGroups ==
    { { stitchInput.order[id] : id \in IdsOf(c) } :
        c \in { c \in 1..Len(chains) : Len(chains[c]) >= 3 } }

\* C21: whatever the order of the segments in the list and of the two endpoints
\* in a segment, the returned loops are made of the same groups of segments as
\* for the list in its base order.
C21_OrderDoesNotChangeMembership ==
    (pc = "done" /\ stitchInput.version = "v1") =>
        EmittedGroups = StitchGroups(stitchInput.base)

\* what does hold of C21: the same for a list that is one closed loop without
\* degenerate segments
C21_AsBuilt ==
    (pc = "done" /\ stitchInput.version = "v1" /\ stitchInput.name = "square") =>
        EmittedGroups = StitchGroups(stitchInput.base)

HasNaN(seg) == isNaN(seg[1].x) \/ isNaN(seg[1].y) \/ isNaN(seg[2].x) \/ isNaN(seg[2].y)
NoNaN(seg) == ~HasNaN(seg)

\* C22: in the v2 stitcher a segment with a NaN coordinate is left out of the
\* adjacency graph, is in no returned loop, and the loops returned are those
\* returned for the list without that segment.
C22_NaNSegmentIgnored ==
    (pc = "done" /\ stitchInput.version = "v2") =>
        /\ \A key \in DOMAIN adj : \A k \in 1..Len(adj[key]) :
               NoNaN(segments[adj[key][k].id])
        /\ \A c \in 1..Len(chains) :
               Len(chains[c]) >= 3 => \A id \in IdsOf(c) : NoNaN(segments[id])
        /\ loops = stitchSegments_v2(SelectSeq(segments, NoNaN))

\* what does hold of C22: the segment never enters the graph, and it changes
\* nothing when its second point is the one with the NaN coordinate
C22_AsBuilt ==
    (pc = "done" /\ stitchInput.version = "v2") =>
        /\ \A key \in DOMAIN adj : \A k \in 1..Len(adj[key]) :
               NoNaN(segments[adj[key][k].id])
        /\ (\A i \in 1..Len(segments) :
                HasNaN(segments[i]) => (isNaN(segments[i][2].x) \/ isNaN(segments[i][2].y)))
               => loops = stitchSegments_v2(SelectSeq(segments, NoNaN))

\* the edges of a triangle in the order of line 64
EdgesOf(t) == << << t[1], t[2] >>, << t[2], t[3] >>, << t[3], t[1] >> >>

Between(a, lo, hi) == Le(Min2(lo, hi), a) /\ Le(a, Max2(lo, hi))

\* C24: for every edge (pa, pb) classified as crossing, pb.z - pa.z is not zero
\* and t = (z0 - pa.z) / (pb.z - pa.z) lies in [0, 1]; the point computed lies
\* on the edge between its endpoints, and it is an endpoint exactly when that
\* endpoint's z equals z0.
C24_CrossingParameterInUnitInterval ==
    (pc = "triangles" /\ triIndex >= 1) =>
        \A k \in 1..3 :
            LET pa == EdgesOf(LastTriangle)[k][1]
                pb == EdgesOf(LastTriangle)[k][2]
            IN  EdgeCrosses(pa, pb, z) =>
                    /\ Sub(pb.z, pa.z) # R(0)
                    /\ Le(R(0), EdgeParam(pa, pb, z)) /\ Le(EdgeParam(pa, pb, z), R(1))
                    /\ \E p \in {Interpolate(pa, pb, z)} :
                           /\ Between(p.x, pa.x, pb.x) /\ Between(p.y, pa.y, pb.y)
                           /\ p.z = z
                           /\ Sub(p.x, pa.x) = Mul(EdgeParam(pa, pb, z), Sub(pb.x, pa.x))
                           /\ Sub(p.y, pa.y) = Mul(EdgeParam(pa, pb, z), Sub(pb.y, pa.y))
                           /\ (p = pa <=> pa.z = z)
                           /\ (p = pb <=> pb.z = z)

\* a triangle with one edge ending on the plane (t = 1), another starting on it
\* (t = 0) or crossing it strictly inside, and the segment returned
C24_Witness ==
    /\ pc = "triangles" /\ triIndex >= 1
    /\ divisions >= 2
    /\ \E k \in 1..3 :
           LET pa == EdgesOf(LastTriangle)[k][1]
               pb == EdgesOf(LastTriangle)[k][2]
           IN  /\ EdgeCrosses(pa, pb, z) /\ pb.z = z
               /\ EdgeParam(pa, pb, z) = R(1)
               /\ Interpolate(pa, pb, z) = pb
    /\ \E k \in 1..3 :
           LET pa == EdgesOf(LastTriangle)[k][1]
               pb == EdgesOf(LastTriangle)[k][2]
           IN  /\ EdgeCrosses(pa, pb, z)
               /\ Lt(R(0), EdgeParam(pa, pb, z)) /\ Lt(EdgeParam(pa, pb, z), R(1))
    /\ Len(triangleSegments) = 1

\* C25: every loop returned for a closed mesh, at any height from minZ to maxZ
\* inclusive, also through vertices, has at least three pairwise distinct
\* points.
C25_LoopsHaveThreeDistinctPoints ==
    (pc = "done" /\ ~OutsideRange) =>
        \A k \in 1..Len(loops) : Cardinality(PointsOf(loops[k])) >= 3

\* what does hold of C25: the same at the heights that pass through no vertex
C25_AsBuilt ==
    (pc = "done" /\ ~OutsideRange /\ ~ThroughVertex) =>
        \A k \in 1..Len(loops) : Cardinality(PointsOf(loops[k])) >= 3

(***************************************************************************)
(* Properties of generateGeometry                                          *)
(***************************************************************************)
\* 2r * (1 - overlapV / 100), from the arguments
ExpectedVerticalStep == Div(Mul(Mul(R(2), radius), Sub(R(100), overlapV)), R(100))

\* C10: for r > 0 and a vertical overlap in [0, 100) the centre heights of
\* consecutive layers differ by exactly 2r * (1 - overlapV / 100): layer i is
\* centred at centerZ0 + i * verticalStep, for every layer handled.
C10_LayerCentresEquallySpaced ==
    (gpc # "idle" /\ gpc # "call" /\ Gt(radius, R(0))
       /\ Ge(overlapV, R(0)) /\ Lt(overlapV, R(100))) =>
        /\ \A k \in 1..Len(centerZs) :
               centerZs[k] = Add(centerZ0, Mul(R(k - 1), ExpectedVerticalStep))
        /\ \A k \in 1..(Len(centerZs) - 1) :
               Sub(centerZs[k + 1], centerZs[k]) = ExpectedVerticalStep

C10_Witness ==
    /\ gpc = "return" /\ Len(centerZs) >= 3
    /\ overlapV = R(25) /\ radius = << 3, 2 >>
    /\ Sub(centerZs[3], centerZs[2]) = << 9, 4 >>

\* clamp(baseFlatten, 0, 100), from the argument
ClampedFlatten ==
    IF Lt(baseFlattenPercent, R(0)) THEN R(0)
    ELSE IF Gt(baseFlattenPercent, R(100)) THEN R(100)
    ELSE baseFlattenPercent

\* C11: with theta = pi * (1 - clamp(baseFlatten, 0, 100) / 100), the centre of
\* layer 0 is placed so that the cut face of its caps, centerZ0 + r * cos(theta),
\* is exactly minZ: at 100 the centre is r below minZ, at 50 it is at minZ, at 0
\* the south pole (centre - r) is at minZ; the spheres of layer 0, and only
\* they, are built with that cut angle.
C11_CutFaceAtMinZ ==
    (gpc # "idle" /\ gpc # "call") =>
        /\ thetaLength = Sub(R(1), Div(ClampedFlatten, R(100)))
        /\ Add(centerZ0, Mul(radius, CosPi(thetaLength))) = box.min.z
        /\ (ClampedFlatten = R(100) => centerZ0 = Sub(box.min.z, radius))
        /\ (ClampedFlatten = R(50) => centerZ0 = box.min.z)
        /\ (ClampedFlatten = R(0) => Sub(centerZ0, radius) = box.min.z)
        /\ (layerStep # R(0) =>
               \A i \in 1..Len(geometries) :
                   geometries[i].thetaLength =
                       IF geometries[i].z = centerZ0 THEN thetaLength ELSE R(1))

C11_Witness ==
    /\ gpc = "return"
    /\ baseFlattenPercent = R(100)
    /\ Len(geometries) > 0
    /\ geometries[1].z = Sub(box.min.z, radius)
    /\ geometries[1].thetaLength = R(0)
    /\ geometries[Len(geometries)].thetaLength = R(1)

\* C12: whatever overlap percentages are supplied (100, above 100, negative),
\* the vertical and the horizontal step used are strictly positive and at most
\* 2r, as they would be if the percentages were clamped into [0, 100).
C12_StepsWithinDiameter ==
    (gpc # "idle" /\ gpc # "call") =>
        /\ Gt(layerStep, R(0)) /\ Le(layerStep, Mul(R(2), radius))
        /\ Gt(horizontalStep, R(0)) /\ Le(horizontalStep, Mul(R(2), radius))

\* C13: every call of generateGeometry returns, for every combination of
\* radius, overlaps and base flatten, overlaps of exactly 100 (a step of 0)
\* included; in particular the grid enumeration of each layer is finite: every
\* call of getGridPointsInContours returns.
C13_EveryCallReturns == <>(gridpc = "return")

\* C14: when the layer loop is ended by the safety cap, the value returned says
\* so: it is something else than the merged geometry or null that a complete
\* run returns.
C14_TruncationReported ==
    (gpc = "return" /\ layerIndex > LayerCap) => result \notin {"geometry", "null"}

\* C16: a layer that is not above the mesh always advances the layer index by
\* one and is centred and sampled at the heights its index gives, whether it
\* yields points or not; a layer whose slice has no contours, or whose contours
\* enclose no grid point, adds no placement and ends the run no earlier.
C16_EmptyLayerOnlyAddsNothing ==
    [][ (/\ gpc = "loop"
         /\ gpc' # "grid"
         /\ ~Gt(Sub(CenterZOf(centerZ0, layerIndex, layerStep), radius), box.max.z))
        => /\ layerIndex' = layerIndex + 1
           /\ centerZs' = Append(centerZs, CenterZOf(centerZ0, layerIndex, layerStep))
           /\ sampleZs' = Append(sampleZs,
                  SampleZOf(box.min.z, box.max.z,
                            CenterZOf(centerZ0, layerIndex, layerStep)))
           /\ gpc' = IF layerIndex' > LayerCap THEN "merge" ELSE "loop"
           /\ (layerContours' = << >> => layerPoints' = << >>)
           /\ (layerPoints' = << >> => geometries' = geometries)
           /\ Len(geometries') = Len(geometries) + Len(layerPoints') ]_vars

\* the split mesh: the layer sampled in the gap has no placement, a later one has
C16_Witness ==
    /\ gpc = "return" /\ target = "stack"
    /\ \E k \in 1..Len(sampleZs) :
           /\ sampleZs[k] = R(0)
           /\ \A i \in 1..Len(geometries) : geometries[i].z # centerZs[k]
           /\ \E i \in 1..Len(geometries) : Gt(geometries[i].z, centerZs[k])
           /\ \E i \in 1..Len(geometries) : Lt(geometries[i].z, centerZs[k])

\* C17: generateGeometry returns null exactly when no layer placed anything,
\* and it does return then; updateBubbleView, given null, leaves the slicer's
\* state (currentMesh, ghost, slice target, modelHeight, caps, scene) as it is.
C17_NullIffNoPlacement ==
    [][ /\ gpc = "merge" =>
              /\ gpc' = "return"
              /\ (result' = "null" <=> Len(geometries) = 0)
              /\ (result' = "geometry" <=> Len(geometries) > 0)
        /\ (gpc = "return" /\ result = "null") =>
              /\ gpc' = "done"
              /\ UNCHANGED slicerVars ]_vars

C17_Witness ==
    /\ gpc = "done" /\ result = "null"
    /\ bubbleMode /\ lastCall = "updateBubbleView"
    /\ Len(centerZs) > 0 /\ Len(geometries) = 0
    /\ currentMesh = originalMesh /\ currentMesh.kind = "model"
    /\ activeSliceTarget = Null
    /\ sceneMeshes = {currentMesh, ghostMesh}
    /\ modelHeight = Sub(box.max.z, box.min.z)

\* C18: calls of generateGeometry on one instance with the same arguments and
\* the same mesh give the same result and the same placement list (centres,
\* radii, cut angles, order), whatever calls were made before them and
\* whatever bubbleSize they left.
C18_SameArgumentsSamePlacements ==
    \A i, j \in 1..Len(runs) :
        runs[i].call = runs[j].call =>
            /\ runs[i].result = runs[j].result
            /\ runs[i].placements = runs[j].placements

C18_Witness ==
    /\ Len(runs) = 3
    /\ runs[1].call = runs[3].call
    /\ runs[2].call.radius # runs[1].call.radius
    /\ runs[2].call.overlapV # runs[1].call.overlapV
    /\ Len(runs[1].placements) > 0
    /\ runs[3].placements = runs[1].placements
    /\ bubbleSize = runs[3].call.radius

\* C19: for every layer and every mesh with maxZ > minZ the height passed to
\* getSliceContours lies strictly between minZ and maxZ.
C19_SampleStrictlyInside ==
    (gpc # "idle" /\ gpc # "call" /\ Gt(box.max.z, box.min.z)) =>
        \A k \in 1..Len(sampleZs) :
            Lt(box.min.z, sampleZs[k]) /\ Lt(sampleZs[k], box.max.z)

\* what does hold of C19: the same for the meshes higher than the margin 0.01
C19_AsBuilt ==
    (gpc # "idle" /\ gpc # "call" /\ Gt(Sub(box.max.z, box.min.z), SampleMargin)) =>
        \A k \in 1..Len(sampleZs) :
            Lt(box.min.z, sampleZs[k]) /\ Lt(sampleZs[k], box.max.z)

\* C26: when updateBubbleView regenerates the bubbles, the base-flatten slider
\* is the base-flatten percentage generateGeometry uses for layer 0 and the
\* overlap slider is the overlap percentage of both the vertical and the
\* horizontal step.
C26_SlidersAreThePercentagesUsed ==
    gpc \notin {"view", "call"} =>
        /\ baseFlattenPercent = flattenSlider
        /\ thetaLength = ThetaOf(flattenSlider)
        /\ overlapV = overlapSlider
        /\ layerStep = StepOf(sizeSlider, overlapSlider)
        /\ overlapH = overlapSlider
        /\ horizontalStep = StepOf(sizeSlider, overlapSlider)

\* what the call does: the overlap slider is the vertical overlap, the
\* base-flatten slider the horizontal overlap, and layer 0 is cut at 50 percent
C26_AsBuilt ==
    gpc \notin {"view", "call"} =>
        /\ baseFlattenPercent = R(50)
        /\ thetaLength = ThetaOf(R(50))
        /\ overlapV = overlapSlider
        /\ layerStep = StepOf(sizeSlider, overlapSlider)
        /\ overlapH = flattenSlider
        /\ horizontalStep = StepOf(sizeSlider, flattenSlider)

(***************************************************************************)
(* Properties of getGridPointsInContours                                   *)
(***************************************************************************)
LatticeSpan == 8

\* the points ((n + 1/2) * s, (m + 1/2) * s), n and m integers: the lattice
\* anchored at the world origin, whatever the box
Lattice(s) ==
    { [x |-> Mul(<< 2 * i + 1, 2 >>, s), y |-> Mul(<< 2 * j + 1, 2 >>, s)] :
        i \in (0 - LatticeSpan)..LatticeSpan, j \in (0 - LatticeSpan)..LatticeSpan }

\* the lattice points whose indices lie between floor((min - s/2) / s) and
\* ceil((max - s/2) / s): those less than one step outside the box
InIndexRange(p, b, s) ==
    /\ Gt(p.x, Sub(b.min.x, s)) /\ Lt(p.x, Add(b.max.x, s))
    /\ Gt(p.y, Sub(b.min.y, s)) /\ Lt(p.y, Add(b.max.y, s))

\* C15: for a positive step s the placements returned are exactly the points
\* ((n + 1/2) * s, (m + 1/2) * s) of the origin-anchored lattice that lie in
\* the index range covering the box and that isPointInContours classifies
\* inside, each once; the lattice does not depend on where the box is.
C15_PlacementsOnWorldLattice ==
    Gt(gridSpacing, R(0)) =>
        /\ \A k \in 1..Len(gridPoints) : gridPoints[k] \in Lattice(gridSpacing)
        /\ gridpc = "return" =>
               /\ { gridPoints[k] : k \in 1..Len(gridPoints) } =
                      { p \in Lattice(gridSpacing) :
                          /\ InIndexRange(p, gBox, gridSpacing)
                          /\ isPointInContours(p.x, p.y, gContours) }
               /\ \A k, l \in 1..Len(gridPoints) :
                      gridPoints[k] = gridPoints[l] => k = l

C15_Witness ==
    /\ gridpc = "return"
    /\ gBox = Box3(CubeMoved)
    /\ gridSpacing = R(2)
    /\ Len(gridPoints) = 25
    /\ \E k \in 1..Len(gridPoints) : gridPoints[k] = [x |-> R(5), y |-> R(-3)]

(***************************************************************************)
(* Properties of the page and the slicer                                   *)
(***************************************************************************)
\* C27: whenever the slider's input handler runs, currentMesh is not null,
\* in every interleaving of the user's events and the loads: no run of the
\* handler ends in the TypeError of reading a property of null.
C27_HandlerSeesCurrentMesh == ~lastInput.error

\* a run of the handler fails only after a second file was chosen
C27_AsBuilt == lastInput.error => uploads >= 2 /\ lastInput.by # "load"

SolidKinds == {"model", "bubbles"}
GhostKinds == {"ghost", "bubblesGhost"}

\* C28: after any uploads, load completions, regenerations and toggles the
\* scene holds at most one solid mesh and at most one ghost, and they are
\* exactly the objects currentMesh and ghostMesh refer to.
C28_SceneIsWhatIsReferenced ==
    /\ sceneMeshes = {currentMesh, ghostMesh} \ {Null}
    /\ Cardinality({ m \in sceneMeshes : m.kind \in SolidKinds }) <= 1
    /\ Cardinality({ m \in sceneMeshes : m.kind \in GhostKinds }) <= 1

\* while only one file was ever chosen the scene is what is referenced
C28_AsBuilt == uploads <= 1 => sceneMeshes = {currentMesh, ghostMesh} \ {Null}

\* C29: whenever the mesh displayed and sliced is the original loaded mesh,
\* caps and contours are drawn (useCaps is true); useCaps is false only while a
\* bubble geometry installed with renderCaps = false is the slice target.
C29_OriginalIsDrawnWithCaps ==
    /\ (currentMesh # Null /\ currentMesh = originalMesh) => useCaps
    /\ ~useCaps => (activeSliceTarget.kind = "bubbles" /\ activeSliceTarget = currentMesh)

\* useCaps is false only after bubbles were installed
C29_AsBuilt == ~useCaps => nextId >= 5

\* C30: with a model loaded, restoreOriginalGeometry undoes any number of
\* setTargetGeometry calls: after it currentMesh is originalMesh, modelHeight
\* is originalModelHeight and the slider slices the original; neither
\* setTargetGeometry nor restoreOriginalGeometry changes originalMesh or
\* originalModelHeight or disposes the original's geometry; with no model
\* loaded restoreOriginalGeometry changes nothing.
C30_RestoreUndoesSetTarget ==
    [][ /\ lastCall' = "restoreOriginalGeometry" =>
              IF originalMesh = Null
              THEN UNCHANGED slicerVars
              ELSE /\ currentMesh' = originalMesh
                   /\ modelHeight' = originalModelHeight
                   /\ activeSliceTarget' = originalMesh
                   /\ lastInput' = [by |-> "setSliceTarget", target |-> originalMesh,
                                    error |-> FALSE]
                   /\ originalMesh \in sceneMeshes'
        /\ lastCall' \in {"restoreOriginalGeometry", "setTargetGeometry"} =>
              /\ originalMesh' = originalMesh
              /\ originalModelHeight' = originalModelHeight
              /\ originalMesh # Null =>
                     (originalMesh.geo \in disposed' <=> originalMesh.geo \in disposed) ]_vars

\* the original is back after two bubble geometries, at its own height
C30_Witness ==
    /\ lastCall = "restoreOriginalGeometry"
    /\ originalMesh # Null
    /\ currentMesh = originalMesh
    /\ modelHeight = originalModelHeight
    /\ lastInput.target = originalMesh
    /\ Cardinality(disposed) >= 2
    /\ originalMesh.geo \notin disposed

====
